---- MODULE Spec2Model ----
(***************************************************************************)
(* A model of the realtime client library: the conversation store          *)
(* (RealtimeConversation, src/lib/conversation.ts) and the event bus       *)
(* (RealtimeEventHandler, src/lib/event_handler.ts).                       *)
(*                                                                         *)
(* JavaScript values are represented as follows.                           *)
(*   - a string is a sequence of one-character strings; the value          *)
(*     undefined, where a string is expected, is the one-element sequence  *)
(*     Undefined, so that JavaScript's  undefined + "a" = "undefineda"     *)
(*     is plain sequence concatenation;                                    *)
(*   - an Int16Array is a sequence of integers in -32768..32767; the value *)
(*     undefined, where an Int16Array is expected, is UndefinedAudio, a    *)
(*     sequence holding a number no 16-bit sample can hold;                *)
(*   - an object held by reference (an item) lives in heap under a         *)
(*     reference; the list and the index hold references.                  *)
(***************************************************************************)
EXTENDS Integers, Sequences, FiniteSets, TLC

\* ------------------------------------------------------------------ bounds

\* The number of calls made in one run: on the store (events processed,
\* buffers queued, clears) or on the bus (on, onNext, dispatch, waitForNext).
MaxEvents == 4

\* ------------------------------------------------------- program constants

\* RealtimeConversation.defaultFrequency
defaultFrequency == 24000

\* ------------------------------------------------------------------ inputs

ItemIds == {"a", "b"}
ResponseIds == {"r"}
Chars == {"x", "y"}
\* The strings a delta event carries.
DeltaStrings == {<<c>> : c \in Chars}
\* The transcripts a transcription.completed event carries ('' included).
Transcripts == {<<>>, <<"x">>}
\* Offsets in milliseconds carried by speech and truncation events.
StartMs == {0, 1}
EndMs == {1, 2}
ContentIndexes == {0}

Undefined == <<"undefined">>
UndefinedAudio == <<32768>>
\* content of an item that has no content property
NoContent == <<[type |-> "undefined", text |-> Undefined, transcript |-> Undefined]>>
\* the value null of queuedInputAudio
NullAudio == <<32769>>
\* an unset audio_end_ms / no context argument
Unset == -1

\* A raw input buffer of n samples whose k-th sample is 100 + k.
Ramp(n) == [k \in 1..n |-> 100 + k]
\* The raw input buffers speech_stopped gets as its context.
InputBuffers == {Ramp(30)}
\* The buffers handed to queueInputAudio.
QueuedBuffers == {Ramp(26)}
NoBuffer == UndefinedAudio

\* The items conversation.item.created events carry (event.item, without id).
ItemShapes ==
  { [type |-> "message", role |-> "user", status |-> "completed", name |-> Undefined,
     content |-> <<[type |-> "input_text", text |-> <<"x">>, transcript |-> Undefined]>>,
     arguments |-> Undefined],
    [type |-> "message", role |-> "assistant", status |-> "in_progress", name |-> Undefined,
     content |-> <<>>, arguments |-> Undefined],
    [type |-> "function_call", role |-> "none", status |-> "in_progress", name |-> <<"T">>,
     content |-> NoContent, arguments |-> <<>>] }

\* The content parts response.content_part.added events carry.
Parts ==
  { [type |-> "text", text |-> <<>>, transcript |-> Undefined],
    [type |-> "audio", text |-> Undefined, transcript |-> <<>>] }

\* ------------------------------------------------------- pure JavaScript

Min(a, b) == IF a < b THEN a ELSE b
Max(a, b) == IF a > b THEN a ELSE b

\* Math.floor((ms * this.defaultFrequency) / 1000)
SampleIndex(ms) == (ms * defaultFrequency) \div 1000

\* %TypedArray%.prototype.slice(start, end)
RelIndex(i, len) == IF i < 0 THEN Max(len + i, 0) ELSE Min(i, len)
Slice(arr, start, end) ==
  SubSeq(arr, RelIndex(start, Len(arr)) + 1, RelIndex(end, Len(arr)))

\* RealtimeUtils.base64ToArrayBuffer: a base64 text is the sequence of its
\* digits' values (0..63), the padding left out; four digits give three bytes,
\* a rest of three digits two bytes, a rest of two digits one byte.
RECURSIVE base64ToArrayBuffer(_)
base64ToArrayBuffer(b64) ==
  IF Len(b64) < 2 THEN <<>>
  ELSE LET b1 == b64[1] * 4 + (b64[2] \div 16)
       IN IF Len(b64) = 2 THEN <<b1>>
          ELSE LET b2 == (b64[2] % 16) * 16 + (b64[3] \div 4)
               IN IF Len(b64) = 3 THEN <<b1, b2>>
                  ELSE <<b1, b2, (b64[3] % 4) * 64 + b64[4]>>
                       \o base64ToArrayBuffer(SubSeq(b64, 5, Len(b64)))

\* new Int16Array(arrayBuffer) throws a RangeError on an odd byte length.
Int16ArrayThrows(bytes) == Len(bytes) % 2 # 0
\* new Int16Array(arrayBuffer): little-endian pairs of bytes, two's complement.
Int16Sample(lo, hi) ==
  LET u == lo + 256 * hi IN IF u >= 32768 THEN u - 65536 ELSE u
Int16Array(bytes) ==
  [k \in 1..(Len(bytes) \div 2) |-> Int16Sample(bytes[2 * k - 1], bytes[2 * k])]

\* x instanceof Int16Array
IsInt16Array(x) == \A k \in 1..Len(x) : x[k] >= -32768 /\ x[k] <= 32767
\* RealtimeUtils.mergeInt16Arrays: the samples of left followed by those of right.
mergeInt16ArraysThrows(left, right) == ~IsInt16Array(left) \/ ~IsInt16Array(right)
mergeInt16Arrays(left, right) == left \o right

\* The base64 texts response.audio.delta events carry: "AQA=" (the sample 1),
\* "//8=" (the sample -1) and "AQ==" (one byte, no whole sample).
AudioDeltas == {<<0, 16, 0>>, <<63, 63, 60>>, <<0, 16>>}

\* ------------------------------------------------------------------- state

VARIABLES
  \* RealtimeConversation
  heap,                  \* the item objects, by reference
  items,                 \* this.items: references, in order
  itemLookup,            \* this.itemLookup: id -> reference
  responseLookup,        \* this.responseLookup: id -> response
  responses,             \* this.responses: response ids, in order
  queuedSpeechItems,     \* this.queuedSpeechItems: id -> speech
  queuedTranscriptItems, \* this.queuedTranscriptItems: id -> transcript
  queuedInputAudio,      \* this.queuedInputAudio
  thrown,                \* what the last call threw ("" if it returned)
  steps,                 \* the number of calls made
  speechSeen,            \* history: per id, the arguments of the speech events
                         \* processed since the id's last conversation.item.created
  \* RealtimeEventHandler
  eventHandlers,         \* this.eventHandlers: event name -> callbacks
  nextEventHandlers,     \* this.nextEventHandlers: event name -> callbacks
  waiter,                \* the pending waitForNext call: its position, its
                         \* arguments, its local nextEvent, what it returned
  calls,                 \* history: the callbacks the last dispatch invoked
  registered,            \* history: the on/onNext registrations made, in
                         \* order, the one-shot ones marked once a dispatch
                         \* of their name has been made
  firstDispatch,         \* history: the payload of the first dispatch of the
                         \* awaited name since the waitForNext call
  \* RealtimeAPI
  ws,                    \* this.ws: the active transport, 0 for null
  sockets,               \* the transports connect() made, in order: what the
                         \* transport has reported, the close() calls made on
                         \* it, the promise its connect() returned
  wire,                  \* history: what was handed to a transport's send
  apiEvents,             \* history: the events RealtimeAPI dispatched
  \* RealtimeClient
  tools,                 \* this.tools: tool name -> what its handler does
  turn_detection,        \* this.sessionConfig.turn_detection
  voice,                 \* this.sessionConfig.voice
  sessionTools,          \* this.sessionConfig.tools: the names of the tools
                         \* last given inline to updateSession
  clientInputAudioBuffer, \* this.inputAudioBuffer of the client
  running,               \* the callTool invocations awaiting their handler
  toolCalls              \* history: the tool handler invocations made

storeVars == <<heap, items, itemLookup, responseLookup, responses,
               queuedSpeechItems, queuedTranscriptItems, queuedInputAudio>>
busVars == <<eventHandlers, nextEventHandlers, waiter, calls, registered, firstDispatch>>
apiVars == <<ws, sockets, wire, apiEvents>>
clientVars == <<tools, turn_detection, voice, sessionTools, clientInputAudioBuffer,
               running, toolCalls>>
vars == <<storeVars, thrown, steps, speechSeen, busVars, apiVars, clientVars>>

EmptyMap == [k \in {} |-> 0]
Remove(f, k) == [x \in DOMAIN f \ {k} |-> f[x]]
Put(f, k, v) == [x \in DOMAIN f \cup {k} |-> IF x = k THEN v ELSE f[x]]
Range(s) == {s[k] : k \in DOMAIN s}
\* items.indexOf(ref), 0 when absent (JavaScript's -1)
IndexOf(s, x) ==
  IF x \in Range(s) THEN CHOOSE k \in DOMAIN s : s[k] = x /\ \A j \in 1..(k - 1) : s[j] # x
  ELSE 0
\* items.splice(index, 1)
Splice(s, k) == SubSeq(s, 1, k - 1) \o SubSeq(s, k + 1, Len(s))

\* A reference no live object has; objects no list or index holds are dropped.
NewRef == CHOOSE r \in 1..(Cardinality(DOMAIN heap) + 1) : r \notin DOMAIN heap
Collect(h, list, index) ==
  [r \in {x \in DOMAIN h : x \in Range(list) \/ x \in Range(index)} |-> h[r]]

\* The errors a call throws: the reducers' own Error (an id not found), the
\* TypeError of reading a property of undefined, the RangeError of
\* new Int16Array, mergeInt16Arrays' Error, processEvent's Error.
NotFound == "not found"
TypeError == "TypeError"
RangeError == "RangeError"
MergeError == "Both items must be Int16Array"
EventError == "invalid event"

\* One call on the store ends, returning (error = "") or throwing.
Called(error) ==
  steps < MaxEvents /\ steps' = steps + 1 /\ thrown' = error /\ UNCHANGED busVars
NoSpeech == [started |-> FALSE, start_ms |-> Unset, end_ms |-> Unset, buffer |-> NoBuffer]

\* RealtimeConversation.clear; the constructor calls it.
StoreInit ==
  /\ heap = EmptyMap
  /\ items = <<>>
  /\ itemLookup = EmptyMap
  /\ responseLookup = EmptyMap
  /\ responses = <<>>
  /\ queuedSpeechItems = EmptyMap
  /\ queuedTranscriptItems = EmptyMap
  /\ queuedInputAudio = NullAudio
  /\ thrown = ""
  /\ steps = 0
  /\ speechSeen = [id \in ItemIds |-> NoSpeech]

clear ==
  /\ heap' = EmptyMap
  /\ items' = <<>>
  /\ itemLookup' = EmptyMap
  /\ responseLookup' = EmptyMap
  /\ responses' = <<>>
  /\ queuedSpeechItems' = EmptyMap
  /\ queuedTranscriptItems' = EmptyMap
  /\ queuedInputAudio' = NullAudio
  /\ Called("")
  /\ speechSeen' = [id \in ItemIds |-> NoSpeech]

queueInputAudio(inputAudio) ==
  /\ queuedInputAudio' = inputAudio
  /\ Called("")
  /\ UNCHANGED <<speechSeen, heap, items, itemLookup, responseLookup, responses,
                 queuedSpeechItems, queuedTranscriptItems>>

\* ------------------------------------------------- conversation.item.created

\* newItem.content.filter(text | input_text), their text concatenated
RECURSIVE TextOf(_)
TextOf(content) ==
  IF content = <<>> THEN <<>>
  ELSE (IF Head(content).type \in {"text", "input_text"} THEN Head(content).text ELSE <<>>)
       \o TextOf(Tail(content))

\* this.queuedTranscriptItems.transcript: the property named "transcript" of
\* the map, which is the entry of an item whose id is "transcript", if any.
QueuedTranscriptProperty ==
  IF "transcript" \in DOMAIN queuedTranscriptItems THEN <<"[object Object]">> ELSE Undefined

NoTool == [arguments |-> Undefined, name |-> Undefined]

\* Whether the created item takes the manually queued input audio.
TakesInputAudio(shape) ==
  shape.type = "message" /\ shape.role = "user" /\ queuedInputAudio # NullAudio

\* The item conversation.item.created builds from event.item.
NewItem(id, shape) ==
  [ id |-> id, type |-> shape.type, role |-> shape.role, name |-> shape.name,
    content |-> shape.content, arguments |-> shape.arguments,
    status |-> IF shape.type = "message"
               THEN (IF shape.role = "user" THEN "completed" ELSE "in_progress")
               ELSE IF shape.type = "function_call" THEN "in_progress"
               ELSE IF shape.type = "function_call_output" THEN "completed"
               ELSE shape.status,
    formatted |->
      [ audio |-> IF TakesInputAudio(shape) THEN queuedInputAudio
                  ELSE IF id \in DOMAIN queuedSpeechItems THEN queuedSpeechItems[id].audio
                  ELSE <<>>,
        text |-> IF shape.content # NoContent THEN TextOf(shape.content) ELSE <<>>,
        transcript |-> IF id \in DOMAIN queuedTranscriptItems
                       THEN QueuedTranscriptProperty ELSE <<>>,
        tool |-> IF shape.type = "function_call"
                 THEN [arguments |-> <<>>, name |-> shape.name] ELSE NoTool ] ]

\* A faulty variant: every creation is taken as new.
AlreadyCreatedNever(id) == FALSE
\* this.itemLookup[newItem.id] is set
AlreadyCreated(id) == id \in DOMAIN itemLookup

\* A faulty variant: the entry is left in the queue.
ConsumedKept(queue, id) == queue
\* delete queue[newItem.id]
Consumed(queue, id) == Remove(queue, id)

ConversationItemCreated(id, shape) ==
  /\ IF ~AlreadyCreated(id)
     THEN /\ heap' = Put(heap, NewRef, NewItem(id, shape))
          /\ itemLookup' = Put(itemLookup, id, NewRef)
          /\ items' = Append(items, NewRef)
     ELSE UNCHANGED <<heap, itemLookup, items>>
  /\ queuedSpeechItems' = Consumed(queuedSpeechItems, id)
  /\ queuedTranscriptItems' = Consumed(queuedTranscriptItems, id)
  /\ queuedInputAudio' = IF TakesInputAudio(shape) THEN NullAudio ELSE queuedInputAudio
  /\ Called("")
  /\ speechSeen' = [speechSeen EXCEPT ![id] = NoSpeech]
  /\ UNCHANGED <<responseLookup, responses>>

\* A reducer that throws before it changed anything.
Throws(error) ==
  /\ Called(error)
  /\ UNCHANGED <<storeVars, speechSeen>>

\* A faulty variant: deleting an item the store does not hold is ignored.
ConversationItemDeletedLenient(id) ==
  /\ itemLookup' = Remove(itemLookup, id)
  /\ items' = SelectSeq(items, LAMBDA r : heap[r].id # id)
  /\ heap' = [r \in {x \in DOMAIN heap : heap[x].id # id} |-> heap[r]]
  /\ Called("")
  /\ UNCHANGED <<speechSeen, responseLookup, responses, queuedSpeechItems,
                 queuedTranscriptItems, queuedInputAudio>>

ConversationItemDeleted(id) ==
  IF id \notin DOMAIN itemLookup THEN Throws(NotFound)
  ELSE LET item == itemLookup[id]
           index == IndexOf(items, item)
           left == IF index > 0 THEN Splice(items, index) ELSE items
       IN /\ itemLookup' = Remove(itemLookup, heap[item].id)
          /\ items' = left
          /\ heap' = Collect(heap, left, Remove(itemLookup, heap[item].id))
          /\ Called("")
          /\ UNCHANGED <<speechSeen, responseLookup, responses, queuedSpeechItems,
                         queuedTranscriptItems, queuedInputAudio>>

\* item['content'][content_index] is an object (no TypeError on reading it)
HasPart(item, content_index) ==
  item.content # NoContent /\ content_index + 1 <= Len(item.content)

\* transcript || ' '
FormattedTranscript(transcript) == IF transcript = <<>> THEN <<" ">> ELSE transcript

InputAudioTranscriptionCompleted(id, content_index, transcript) ==
  IF id \notin DOMAIN itemLookup
  THEN /\ queuedTranscriptItems' =
            Put(queuedTranscriptItems, id, [transcript |-> FormattedTranscript(transcript)])
       /\ Called("")
       /\ UNCHANGED <<speechSeen, heap, items, itemLookup, responseLookup, responses,
                      queuedSpeechItems, queuedInputAudio>>
  ELSE LET item == itemLookup[id] IN
       IF ~HasPart(heap[item], content_index) THEN Throws(TypeError)
       ELSE /\ heap' = [heap EXCEPT ![item].content[content_index + 1].transcript = transcript,
                                    ![item].formatted.transcript = FormattedTranscript(transcript)]
            /\ Called("")
            /\ UNCHANGED <<speechSeen, items, itemLookup, responseLookup, responses,
                           queuedSpeechItems, queuedTranscriptItems, queuedInputAudio>>

\* item.formatted.audio.slice(0, endIndex)
TruncatedAudio(audio, audio_end_ms) == Slice(audio, 0, SampleIndex(audio_end_ms))

ConversationItemTruncated(id, audio_end_ms) ==
  IF id \notin DOMAIN itemLookup THEN Throws(NotFound)
  ELSE LET item == itemLookup[id] IN
       /\ IF heap[item].formatted.audio = UndefinedAudio
          THEN \* the transcript is cleared, then undefined.slice throws
               /\ heap' = [heap EXCEPT ![item].formatted.transcript = <<>>]
               /\ Called(TypeError)
          ELSE /\ heap' = [heap EXCEPT
                    ![item].formatted.transcript = <<>>,
                    ![item].formatted.audio = TruncatedAudio(@, audio_end_ms)]
               /\ Called("")
       /\ UNCHANGED <<speechSeen, items, itemLookup, responseLookup, responses,
                      queuedSpeechItems, queuedTranscriptItems, queuedInputAudio>>

SpeechStarted(id, audio_start_ms) ==
  /\ queuedSpeechItems' = Put(queuedSpeechItems, id,
       [audio_start_ms |-> audio_start_ms, audio_end_ms |-> Unset, audio |-> UndefinedAudio])
  /\ Called("")
  /\ speechSeen' = [speechSeen EXCEPT ![id] = [started |-> TRUE, start_ms |-> audio_start_ms,
                                            end_ms |-> Unset, buffer |-> NoBuffer]]
  /\ UNCHANGED <<heap, items, itemLookup, responseLookup, responses,
                 queuedTranscriptItems, queuedInputAudio>>

\* A faulty variant: the slice is taken from the start of the buffer.
StoppedSpeechFromZero(id, audio_end_ms, inputAudioBuffer) ==
  LET speech == IF id \in DOMAIN queuedSpeechItems THEN queuedSpeechItems[id]
                ELSE [audio_start_ms |-> audio_end_ms, audio_end_ms |-> Unset,
                      audio |-> UndefinedAudio]
  IN [ audio_start_ms |-> speech.audio_start_ms,
       audio_end_ms |-> audio_end_ms,
       audio |-> IF inputAudioBuffer # NoBuffer
                 THEN Slice(inputAudioBuffer, 0, SampleIndex(audio_end_ms))
                 ELSE speech.audio ]

\* The speech record speech_stopped leaves for the item.
StoppedSpeech(id, audio_end_ms, inputAudioBuffer) ==
  LET speech == IF id \in DOMAIN queuedSpeechItems THEN queuedSpeechItems[id]
                ELSE [audio_start_ms |-> audio_end_ms, audio_end_ms |-> Unset,
                      audio |-> UndefinedAudio]
      startIndex == SampleIndex(speech.audio_start_ms)
      endIndex == SampleIndex(audio_end_ms)
  IN [ audio_start_ms |-> speech.audio_start_ms,
       audio_end_ms |-> audio_end_ms,
       audio |-> IF inputAudioBuffer # NoBuffer
                 THEN Slice(inputAudioBuffer, startIndex, endIndex)
                 ELSE speech.audio ]

SpeechStopped(id, audio_end_ms, inputAudioBuffer) ==
  /\ queuedSpeechItems' =
       Put(queuedSpeechItems, id, StoppedSpeech(id, audio_end_ms, inputAudioBuffer))
  /\ Called("")
  /\ speechSeen' = [speechSeen EXCEPT ![id].end_ms = audio_end_ms, ![id].buffer = inputAudioBuffer]
  /\ UNCHANGED <<heap, items, itemLookup, responseLookup, responses,
                 queuedTranscriptItems, queuedInputAudio>>

\* ----------------------------------------------------------------- deltas

ResponseAudioDelta(id, delta) ==
  IF id \notin DOMAIN itemLookup THEN Throws(NotFound)
  ELSE LET item == itemLookup[id]
           arrayBuffer == base64ToArrayBuffer(delta)
       IN IF Int16ArrayThrows(arrayBuffer) THEN Throws(RangeError)
          ELSE IF mergeInt16ArraysThrows(heap[item].formatted.audio, Int16Array(arrayBuffer))
          THEN Throws(MergeError)
          ELSE /\ heap' = [heap EXCEPT ![item].formatted.audio =
                             mergeInt16Arrays(@, Int16Array(arrayBuffer))]
               /\ Called("")
               /\ UNCHANGED <<speechSeen, items, itemLookup, responseLookup, responses,
                              queuedSpeechItems, queuedTranscriptItems, queuedInputAudio>>

ResponseAudioTranscriptDelta(id, content_index, delta) ==
  IF id \notin DOMAIN itemLookup THEN Throws(NotFound)
  ELSE LET item == itemLookup[id] IN
       IF ~HasPart(heap[item], content_index) THEN Throws(TypeError)
       ELSE /\ heap' = [heap EXCEPT ![item].content[content_index + 1].transcript = @ \o delta,
                                    ![item].formatted.transcript = @ \o delta]
            /\ Called("")
            /\ UNCHANGED <<speechSeen, items, itemLookup, responseLookup, responses,
                           queuedSpeechItems, queuedTranscriptItems, queuedInputAudio>>

ResponseTextDelta(id, content_index, delta) ==
  IF id \notin DOMAIN itemLookup THEN Throws(NotFound)
  ELSE LET item == itemLookup[id] IN
       IF ~HasPart(heap[item], content_index) THEN Throws(TypeError)
       ELSE /\ heap' = [heap EXCEPT ![item].content[content_index + 1].text = @ \o delta,
                                    ![item].formatted.text = @ \o delta]
            /\ Called("")
            /\ UNCHANGED <<speechSeen, items, itemLookup, responseLookup, responses,
                           queuedSpeechItems, queuedTranscriptItems, queuedInputAudio>>

ResponseFunctionCallArgumentsDelta(id, delta) ==
  IF id \notin DOMAIN itemLookup THEN Throws(NotFound)
  ELSE LET item == itemLookup[id] IN
       /\ IF heap[item].formatted.tool = NoTool
          THEN \* item.arguments is extended, then undefined.arguments throws
               /\ heap' = [heap EXCEPT ![item].arguments = @ \o delta]
               /\ Called(TypeError)
          ELSE /\ heap' = [heap EXCEPT ![item].arguments = @ \o delta,
                                       ![item].formatted.tool.arguments = @ \o delta]
               /\ Called("")
       /\ UNCHANGED <<speechSeen, items, itemLookup, responseLookup, responses,
                      queuedSpeechItems, queuedTranscriptItems, queuedInputAudio>>

ResponseContentPartAdded(id, part) ==
  IF id \notin DOMAIN itemLookup THEN Throws(NotFound)
  ELSE LET item == itemLookup[id] IN
       IF heap[item].content = NoContent THEN Throws(TypeError)
       ELSE /\ heap' = [heap EXCEPT ![item].content = Append(@, part)]
            /\ Called("")
            /\ UNCHANGED <<speechSeen, items, itemLookup, responseLookup, responses,
                           queuedSpeechItems, queuedTranscriptItems, queuedInputAudio>>

\* -------------------------------------------------------------- responses

ResponseCreated(response_id) ==
  /\ IF response_id \notin DOMAIN responseLookup
     THEN /\ responseLookup' = Put(responseLookup, response_id,
                                   [id |-> response_id, output |-> <<>>])
          /\ responses' = Append(responses, response_id)
     ELSE UNCHANGED <<responseLookup, responses>>
  /\ Called("")
  /\ UNCHANGED <<speechSeen, heap, items, itemLookup, queuedSpeechItems,
                 queuedTranscriptItems, queuedInputAudio>>

ResponseOutputItemAdded(response_id, item_id) ==
  IF response_id \notin DOMAIN responseLookup THEN Throws(NotFound)
  ELSE /\ responseLookup' = [responseLookup EXCEPT ![response_id].output = Append(@, item_id)]
       /\ Called("")
       /\ UNCHANGED <<speechSeen, heap, items, itemLookup, responses, queuedSpeechItems,
                      queuedTranscriptItems, queuedInputAudio>>

\* The statuses a response.output_item.done event's item carries.
DoneStatuses == {"completed", "incomplete"}

ResponseOutputItemDone(id, status) ==
  IF id \notin DOMAIN itemLookup THEN Throws(NotFound)
  ELSE /\ heap' = [heap EXCEPT ![itemLookup[id]].status = status]
       /\ Called("")
       /\ UNCHANGED <<speechSeen, items, itemLookup, responseLookup, responses,
                      queuedSpeechItems, queuedTranscriptItems, queuedInputAudio>>

\* processEvent on an event without event_id, without type or of a type that
\* has no processor, and response.output_item.done without item: they throw.
ProcessEventRejected == Throws(EventError)

\* RealtimeConversation.getItem, for an id the index holds
getItem(id) == heap[itemLookup[id]]

\* ------------------------------------------------------ the store's steps

\* The store is driven on its own: the link and the client are left as they are.
StoreAlone == UNCHANGED <<apiVars, clientVars>>

NextStore ==
  \/ clear /\ StoreAlone
  \/ \E inputAudio \in QueuedBuffers : queueInputAudio(inputAudio) /\ StoreAlone
  \/ \E id \in ItemIds, shape \in ItemShapes : ConversationItemCreated(id, shape) /\ StoreAlone
  \/ \E id \in ItemIds : ConversationItemDeleted(id) /\ StoreAlone
  \/ \E id \in ItemIds, ci \in ContentIndexes, t \in Transcripts :
       InputAudioTranscriptionCompleted(id, ci, t) /\ StoreAlone
  \/ \E id \in ItemIds, ms \in EndMs : ConversationItemTruncated(id, ms) /\ StoreAlone
  \/ \E id \in ItemIds, ms \in StartMs : SpeechStarted(id, ms) /\ StoreAlone
  \/ \E id \in ItemIds, ms \in EndMs, buf \in InputBuffers \cup {NoBuffer} :
       SpeechStopped(id, ms, buf) /\ StoreAlone
  \/ \E id \in ItemIds, delta \in AudioDeltas : ResponseAudioDelta(id, delta) /\ StoreAlone
  \/ \E id \in ItemIds, ci \in ContentIndexes, delta \in DeltaStrings :
       ResponseAudioTranscriptDelta(id, ci, delta) /\ StoreAlone
  \/ \E id \in ItemIds, ci \in ContentIndexes, delta \in DeltaStrings :
       ResponseTextDelta(id, ci, delta) /\ StoreAlone
  \/ \E id \in ItemIds, delta \in DeltaStrings : ResponseFunctionCallArgumentsDelta(id, delta) /\ StoreAlone
  \/ \E id \in ItemIds, part \in Parts : ResponseContentPartAdded(id, part) /\ StoreAlone
  \/ \E rid \in ResponseIds : ResponseCreated(rid) /\ StoreAlone
  \/ \E rid \in ResponseIds, id \in ItemIds : ResponseOutputItemAdded(rid, id) /\ StoreAlone
  \/ \E id \in ItemIds, status \in DoneStatuses : ResponseOutputItemDone(id, status) /\ StoreAlone
  \/ ProcessEventRejected /\ StoreAlone

\* ============================================================ the event bus

\* ------------------------------------------------------------------ inputs

EventNames == {"x", "y"}
\* The payloads of a dispatch: two objects, and the values JavaScript takes
\* for false: an absent payload (undefined), null, 0 and the empty string.
Payloads == {"{a:1}", "{}", "undefined", "null", "0", ""}
\* !event
Falsy(event) == event \in {"undefined", "null", "0", ""}
\* waitForNext's timeout; 0 stands for null as well: if (timeout) takes
\* neither.
Timeouts == {0, 50}
\* The callbacks a caller registers, by what their body does: two that
\* return, one that throws.
Callbacks ==
  {[body |-> "returns", id |-> 1], [body |-> "returns", id |-> 2], [body |-> "throws", id |-> 3]}
\* The closure (event) => (nextEvent = event) of the id-th waitForNext call.
NextEventSetter(id) == [body |-> "nextEvent = event", id |-> id]

HandlerError == "handler raised"
NoDispatch == "no dispatch"

\* One call on the bus ends, returning (error = "") or throwing.
BusCalled(error) ==
  /\ steps < MaxEvents /\ steps' = steps + 1 /\ thrown' = error
  /\ UNCHANGED <<storeVars, speechSeen, apiVars, clientVars>>

NoWaiter ==
  [pc |-> "idle", id |-> 0, eventName |-> "", timeout |-> 0,
   nextEvent |-> "undefined", elapsed |-> FALSE, result |-> "undefined"]

BusInit ==
  /\ eventHandlers = EmptyMap
  /\ nextEventHandlers = EmptyMap
  /\ waiter = NoWaiter
  /\ calls = <<>>
  /\ registered = <<>>
  /\ firstDispatch = NoDispatch

\* handlers[eventName] || []
HandlersOf(handlers, eventName) ==
  IF eventName \in DOMAIN handlers THEN handlers[eventName] ELSE <<>>
\* handlers[eventName] = handlers[eventName] || []; handlers[eventName].push(callback)
Pushed(handlers, eventName, callback) ==
  Put(handlers, eventName, Append(HandlersOf(handlers, eventName), callback))
\* What on/onNext add to the history of registrations.
Registration(once, eventName, callback) ==
  [once |-> once, name |-> eventName, callback |-> callback, used |-> FALSE]

on(eventName, callback) ==
  /\ eventHandlers' = Pushed(eventHandlers, eventName, callback)
  /\ registered' = Append(registered, Registration(FALSE, eventName, callback))
  /\ BusCalled("")
  /\ UNCHANGED <<nextEventHandlers, waiter, calls, firstDispatch>>

onNext(eventName, callback) ==
  /\ nextEventHandlers' = Pushed(nextEventHandlers, eventName, callback)
  /\ registered' = Append(registered, Registration(TRUE, eventName, callback))
  /\ BusCalled("")
  /\ UNCHANGED <<eventHandlers, waiter, calls, firstDispatch>>

\* The order dispatch calls the callbacks in, were none to throw.
DispatchOrderNextFirst(eventName) ==
  HandlersOf(nextEventHandlers, eventName) \o HandlersOf(eventHandlers, eventName)
DispatchOrder(eventName) ==
  HandlersOf(eventHandlers, eventName) \o HandlersOf(nextEventHandlers, eventName)
\* The callbacks a dispatch gets to call: all of them, or those up to and
\* including the first that throws.
Invoked(handlers) ==
  LET raising == {k \in 1..Len(handlers) : handlers[k].body = "throws"} IN
  IF raising = {} THEN handlers
  ELSE SubSeq(handlers, 1, CHOOSE k \in raising : \A j \in raising : k <= j)

dispatch(eventName, event) ==
  LET handlers == DispatchOrder(eventName)
      invoked == Invoked(handlers)
      returns == invoked = handlers /\ \A k \in 1..Len(handlers) : handlers[k].body # "throws"
  IN /\ calls' = calls \o [k \in 1..Len(invoked) |-> [callback |-> invoked[k], event |-> event]]
     /\ waiter' = IF NextEventSetter(waiter.id) \in Range(invoked)
                  THEN [waiter EXCEPT !.nextEvent = event] ELSE waiter
     /\ nextEventHandlers' = IF returns THEN Remove(nextEventHandlers, eventName)
                             ELSE nextEventHandlers
     /\ registered' = [k \in 1..Len(registered) |->
                          IF registered[k].once /\ registered[k].name = eventName
                          THEN [registered[k] EXCEPT !.used = TRUE] ELSE registered[k]]
     /\ firstDispatch' = IF /\ waiter.pc = "sleeping" /\ waiter.eventName = eventName
                            /\ firstDispatch = NoDispatch
                         THEN event ELSE firstDispatch
     /\ BusCalled(IF returns THEN "" ELSE HandlerError)
     /\ UNCHANGED eventHandlers

\* waitForNext up to its first await: the closure is registered, nextEvent
\* is unset, no time has passed. One call is pending at a time.
waitForNext(eventName, timeout) ==
  /\ waiter.pc # "sleeping"
  /\ nextEventHandlers' = Pushed(nextEventHandlers, eventName, NextEventSetter(waiter.id + 1))
  /\ registered' =
       Append(registered, Registration(TRUE, eventName, NextEventSetter(waiter.id + 1)))
  /\ waiter' = [NoWaiter EXCEPT !.pc = "sleeping", !.id = waiter.id + 1,
                                !.eventName = eventName, !.timeout = timeout]
  /\ firstDispatch' = NoDispatch
  /\ BusCalled("")
  /\ UNCHANGED <<eventHandlers, calls>>

\* Time passes: from now on Date.now() - t0 > timeout.
TimeoutElapses ==
  /\ waiter.pc = "sleeping" /\ waiter.timeout # 0 /\ ~waiter.elapsed
  /\ waiter' = [waiter EXCEPT !.elapsed = TRUE]
  /\ UNCHANGED <<storeVars, speechSeen, thrown, steps, apiVars, clientVars,
                 eventHandlers, nextEventHandlers, calls, registered, firstDispatch>>

\* What one turn of waitForNext's loop, after a sleep, does to the call.
Woken(w) ==
  IF ~Falsy(w.nextEvent) THEN [w EXCEPT !.pc = "returned", !.result = w.nextEvent]
  ELSE IF w.timeout # 0 /\ w.elapsed THEN [w EXCEPT !.pc = "returned", !.result = "null"]
  ELSE w

WaitLoop ==
  /\ waiter.pc = "sleeping"
  /\ waiter' = Woken(waiter)
  /\ UNCHANGED <<storeVars, speechSeen, thrown, steps, apiVars, clientVars,
                 eventHandlers, nextEventHandlers, calls, registered, firstDispatch>>

\* off / offNext called with no callback.
NoCallback == [body |-> "undefined", id |-> 0]
ListenerError == "not found as a listener"

\* A faulty variant: every registration of the callback is removed.
RemovedAll(handlers, eventName, callback) ==
  Put(handlers, eventName,
      SelectSeq(HandlersOf(handlers, eventName), LAMBDA h : h # callback))
\* handlers.splice(handlers.indexOf(callback), 1), the callback being found
Removed(handlers, eventName, callback) ==
  Put(handlers, eventName,
      Splice(handlers[eventName], IndexOf(handlers[eventName], callback)))

off(eventName, callback) ==
  /\ IF callback # NoCallback
     THEN IF IndexOf(HandlersOf(eventHandlers, eventName), callback) = 0
          THEN UNCHANGED eventHandlers /\ BusCalled(ListenerError)
          ELSE /\ eventHandlers' = Removed(eventHandlers, eventName, callback)
               /\ BusCalled("")
     ELSE eventHandlers' = Remove(eventHandlers, eventName) /\ BusCalled("")
  /\ UNCHANGED <<nextEventHandlers, waiter, calls, registered, firstDispatch>>

offNext(eventName, callback) ==
  /\ IF callback # NoCallback
     THEN IF IndexOf(HandlersOf(nextEventHandlers, eventName), callback) = 0
          THEN UNCHANGED nextEventHandlers /\ BusCalled(ListenerError)
          ELSE /\ nextEventHandlers' = Removed(nextEventHandlers, eventName, callback)
               /\ BusCalled("")
     ELSE nextEventHandlers' = Remove(nextEventHandlers, eventName) /\ BusCalled("")
  /\ UNCHANGED <<eventHandlers, waiter, calls, registered, firstDispatch>>

clearEventHandlers ==
  /\ eventHandlers' = EmptyMap
  /\ nextEventHandlers' = EmptyMap
  /\ BusCalled("")
  /\ UNCHANGED <<waiter, calls, registered, firstDispatch>>

\* The bus with its subscriptions added and removed.
NextBusOff ==
  \/ \E eventName \in EventNames, callback \in Callbacks : on(eventName, callback)
  \/ \E eventName \in EventNames, callback \in Callbacks : onNext(eventName, callback)
  \/ \E eventName \in EventNames, callback \in Callbacks \cup {NoCallback} :
       off(eventName, callback)
  \/ \E eventName \in EventNames, callback \in Callbacks \cup {NoCallback} :
       offNext(eventName, callback)
  \/ clearEventHandlers

NextBus ==
  \/ \E eventName \in EventNames, callback \in Callbacks : on(eventName, callback)
  \/ \E eventName \in EventNames, callback \in Callbacks : onNext(eventName, callback)
  \/ \E eventName \in EventNames, event \in Payloads : dispatch(eventName, event)
  \/ \E eventName \in EventNames, timeout \in Timeouts : waitForNext(eventName, timeout)
  \/ TimeoutElapses
  \/ WaitLoop

\* ------------------------------------------------- callbacks that call back

\* Callbacks that use the bus from inside a dispatch: one returns; one
\* dispatches the event it is called for again, the first time it is called
\* (its closure holds a flag, which is set exactly when the history of
\* invocations names the callback); one registers the callback Late with
\* onNext for the event it is called for.
NestedCallbacks ==
  {[body |-> "returns", id |-> 1], [body |-> "dispatches", id |-> 4],
   [body |-> "registers", id |-> 5]}
Late == [body |-> "returns", id |-> 6]
\* The payloads of these dispatches.
NestedPayloads == {"{a:1}", "{}"}

\* The bus as the running code sees it.
Bus ==
  [eventHandlers |-> eventHandlers, nextEventHandlers |-> nextEventHandlers,
   calls |-> calls, registered |-> registered]

RECURSIVE Dispatching(_, _, _)
RECURSIVE CallingEach(_, _, _, _)
\* handler(event): the invocation is recorded, then the body runs.
Calling(bus, handler, eventName, event) ==
  LET first == \A k \in 1..Len(bus.calls) : bus.calls[k].callback # handler
      called == [bus EXCEPT !.calls = Append(@, [callback |-> handler, event |-> event])]
  IN IF handler.body = "dispatches" /\ first
     THEN Dispatching(called, eventName, event)
     ELSE IF handler.body = "registers"
     THEN [called EXCEPT
             !.nextEventHandlers = Pushed(@, eventName, Late),
             !.registered = Append(@, Registration(TRUE, eventName, Late))]
     ELSE called
\* for (const handler of handlers) handler(event)
CallingEach(bus, handlers, eventName, event) ==
  IF handlers = <<>> THEN bus
  ELSE CallingEach(Calling(bus, Head(handlers), eventName, event),
                   Tail(handlers), eventName, event)
\* [].concat(this.nextEventHandlers[eventName] || []), evaluated on the bus
\* the persistent handlers have left.
NextHandlers(after, eventName) == HandlersOf(after.nextEventHandlers, eventName)
\* dispatch(eventName, event) on the bus, its callbacks calling back.
Dispatching(bus, eventName, event) ==
  LET after == CallingEach(bus, HandlersOf(bus.eventHandlers, eventName), eventName, event)
      done == CallingEach(after, NextHandlers(after, eventName), eventName, event)
  IN [done EXCEPT
        !.nextEventHandlers = Remove(@, eventName),
        !.registered = [k \in 1..Len(done.registered) |->
                          IF done.registered[k].once /\ done.registered[k].name = eventName
                          THEN [done.registered[k] EXCEPT !.used = TRUE]
                          ELSE done.registered[k]]]

\* RealtimeEventHandler.dispatch called from outside any callback.
dispatchNested(eventName, event) ==
  LET done == Dispatching(Bus, eventName, event) IN
  /\ eventHandlers' = done.eventHandlers
  /\ nextEventHandlers' = done.nextEventHandlers
  /\ calls' = done.calls
  /\ registered' = done.registered
  /\ BusCalled("")
  /\ UNCHANGED <<waiter, firstDispatch>>

\* The bus with callbacks that call back.
NextBusNested ==
  \/ \E eventName \in EventNames, callback \in NestedCallbacks : on(eventName, callback)
  \/ \E eventName \in EventNames, callback \in NestedCallbacks : onNext(eventName, callback)
  \/ \E eventName \in EventNames, event \in NestedPayloads : dispatchNested(eventName, event)

\* ================================================================ the link

\* ------------------------------------------------------------------ inputs

\* The event names send is called with.
SendTypes == {"x"}
\* The values send is called with as data: a record, nothing, a string, a
\* number other than 0, an array, the number 0, null.
SendData == {"{a:1}", "undefined", "'s'", "7", "[1]", "0", "null"}
\* !data
FalsyData(data) == data \in {"undefined", "0", "null"}
\* typeof data
TypeOf(data) ==
  IF data \in {"{a:1}", "[1]", "null"} THEN "object"
  ELSE IF data = "'s'" THEN "string"
  ELSE IF data = "undefined" THEN "undefined" ELSE "number"
\* { event_id, type: eventName, ...data }: the properties the envelope has
\* besides event_id and type.
Spread(data) ==
  IF data = "{a:1}" THEN <<"a">> ELSE IF data = "[1]" THEN <<"0">> ELSE <<>>

AlreadyConnected == "Already connected"
NotConnected == "RealtimeAPI is not connected"
NotAnObject == "data must be an object"

\* One call on the link ends, returning (error = "") or throwing.
ApiCalled(error) ==
  /\ steps < MaxEvents /\ steps' = steps + 1 /\ thrown' = error
  /\ UNCHANGED <<storeVars, speechSeen, busVars, clientVars>>
\* A callback of a transport has run.
Reported == UNCHANGED <<storeVars, speechSeen, busVars, clientVars, steps, thrown>>

\* A transport as new WebSocket(...) makes it, connect's promise pending;
\* closeEvents counts the 'close' events its listeners have dispatched.
NewSocket ==
  [state |-> "connecting", opened |-> FALSE, closeCalls |-> 0,
   promise |-> "pending", settled |-> 0, closeEvents |-> 0]

ApiInit ==
  /\ ws = 0
  /\ sockets = <<>>
  /\ wire = <<>>
  /\ apiEvents = <<>>

\* RealtimeAPI.isConnected
isConnected == ws # 0

\* ws.close(): an open transport starts closing.
Closed(socket) ==
  [socket EXCEPT !.closeCalls = @ + 1,
                 !.state = IF @ = "open" THEN "closing" ELSE @]

\* A faulty variant: the handle is not compared with the active transport.
DisconnectsAny(handle) == TRUE
\* !ws || this.ws === ws
Disconnects(handle) == handle = 0 \/ ws = handle

\* What disconnect(handle) does to this.ws and to the transports (socks).
WsAfterDisconnect(handle) == IF Disconnects(handle) THEN 0 ELSE ws
SocketsAfterDisconnect(socks, handle) ==
  IF Disconnects(handle) /\ ws # 0 THEN [socks EXCEPT ![ws] = Closed(@)] ELSE socks

\* A faulty variant: the transport is taken as the active one when made.
connectEager ==
  /\ IF isConnected
     THEN UNCHANGED <<sockets, ws>> /\ ApiCalled(AlreadyConnected)
     ELSE /\ sockets' = Append(sockets, NewSocket)
          /\ ws' = Len(sockets) + 1
          /\ ApiCalled("")
  /\ UNCHANGED <<wire, apiEvents>>
\* RealtimeAPI.connect, up to the promise it returns.
connect ==
  /\ IF isConnected
     THEN UNCHANGED sockets /\ ApiCalled(AlreadyConnected)
     ELSE sockets' = Append(sockets, NewSocket) /\ ApiCalled("")
  /\ UNCHANGED <<ws, wire, apiEvents>>

\* RealtimeAPI.disconnect; handle 0 is a call with no handle.
disconnect(handle) ==
  /\ ws' = WsAfterDisconnect(handle)
  /\ sockets' = SocketsAfterDisconnect(sockets, handle)
  /\ ApiCalled("")
  /\ UNCHANGED <<wire, apiEvents>>

\* The transport reports open: the listener of connect runs.
TransportOpen(s) ==
  /\ sockets[s].state = "connecting"
  /\ sockets' = [sockets EXCEPT ![s].state = "open", ![s].opened = TRUE,
                                ![s].promise = "resolved", ![s].settled = @ + 1]
  /\ ws' = s
  /\ Reported
  /\ UNCHANGED <<wire, apiEvents>>

\* A faulty variant: the error listener reports a plain close.
ErrorFlagFalse(s) == FALSE
\* The error flag of the 'close' event the error listener dispatches.
ErrorFlag(s) == TRUE

\* The transport reports an error: connectionErrorHandler runs when it has
\* not reported open, the error listener the open listener added otherwise.
TransportError(s) ==
  /\ sockets[s].state \in {"connecting", "open", "closing"}
  /\ LET failed == [sockets EXCEPT ![s].state = "failed"] IN
     IF ~sockets[s].opened
     THEN /\ sockets' = [SocketsAfterDisconnect(failed, s) EXCEPT
                           ![s].promise = IF @ = "pending" THEN "rejected" ELSE @,
                           ![s].settled = @ + 1]
          /\ ws' = WsAfterDisconnect(s)
          /\ UNCHANGED apiEvents
     ELSE /\ sockets' = [SocketsAfterDisconnect(failed, s) EXCEPT
                           ![s].closeEvents = @ + 1]
          /\ ws' = WsAfterDisconnect(s)
          /\ apiEvents' = Append(apiEvents, [name |-> "close", error |-> ErrorFlag(s)])
  /\ Reported
  /\ UNCHANGED wire

\* The transport reports close: the close listener runs, if the open
\* listener has added it.
TransportClose(s) ==
  /\ sockets[s].state \in {"open", "closing", "failed"}
  /\ LET closed == [sockets EXCEPT ![s].state = "closed"] IN
     IF ~sockets[s].opened
     THEN sockets' = closed /\ UNCHANGED <<ws, apiEvents>>
     ELSE /\ sockets' = [SocketsAfterDisconnect(closed, s) EXCEPT
                           ![s].closeEvents = @ + 1]
          /\ ws' = WsAfterDisconnect(s)
          /\ apiEvents' = Append(apiEvents, [name |-> "close", error |-> FALSE])
  /\ Reported
  /\ UNCHANGED wire

\* RealtimeAPI.send
send(eventName, data) ==
  /\ IF ~isConnected THEN UNCHANGED <<wire, apiEvents>> /\ ApiCalled(NotConnected)
     ELSE IF ~FalsyData(data) /\ TypeOf(data) # "object"
     THEN UNCHANGED <<wire, apiEvents>> /\ ApiCalled(NotAnObject)
     ELSE LET event == [type |-> eventName,
                        data |-> IF FalsyData(data) THEN <<>> ELSE Spread(data)] IN
          /\ apiEvents' = apiEvents
               \o << [name |-> "client." \o eventName, error |-> FALSE],
                     [name |-> "client.*", error |-> FALSE] >>
          /\ wire' = Append(wire, [socket |-> ws, event |-> event])
          /\ ApiCalled("")
  /\ UNCHANGED <<ws, sockets>>

NextAPI ==
  \/ connect
  \/ \E handle \in 0..Len(sockets) : disconnect(handle)
  \/ \E eventName \in SendTypes, data \in SendData : send(eventName, data)
  \/ \E s \in 1..Len(sockets) : TransportOpen(s)
  \/ \E s \in 1..Len(sockets) : TransportError(s)
  \/ \E s \in 1..Len(sockets) : TransportClose(s)

\* ============================================================== the client

\* ------------------------------------------------------------------ inputs

\* The transports the client's connect() may make in a run.
MaxSockets == 1

\* The ids of the items the server's events name.
ClientItemIds == {"a"}
\* What the handler given to addTool does when called: it returns a value
\* (or a promise that fulfils), returns a promise that rejects, or throws.
Handlers == {"returns", "rejects", "throws"}
\* The names addTool is called with.
ToolNames == {<<"T">>}
\* The deltas of response.function_call_arguments.delta events.
ArgumentDeltas == {<<"7">>, <<"x">>}
\* sessionConfig.turn_detection: null or { type: 'server_vad' }.
TurnDetections == {"null", "server_vad"}
\* A field updateSession is called without (void 0); for tools, whose
\* values are sets of names, a set no call gives.
Omitted == "void 0"
OmittedTools == {<<"void 0">>}
\* sessionConfig.voice: 'shimmer' is the default.
Voices == {"alloy"}
\* The tool lists updateSession is given inline, by the names of the tools.
InlineTools == {{<<"T">>}, {<<"U">>}}
\* The arguments of updateSession.
SessionUpdates ==
  { [turn_detection |-> td, voice |-> v, tools |-> t] :
      td \in {Omitted} \cup TurnDetections, v \in {Omitted} \cup Voices,
      t \in {OmittedTools} \cup InlineTools }
\* A definition without a name, a handler that is no function.
NoName == <<>>
NotAFunction == "not a function"
\* The arrays appendInputAudio is called with.
AppendBuffers == {<<>>, <<101, 102>>, <<103>>}
\* The sample counts cancelResponse is called with: none, 1.5 ms of audio,
\* 1001 ms of audio.
SampleCounts == {0, 36, 24024}

\* JSON.parse on the texts the deltas make: a text of digits is a number,
\* the empty text and a text with a letter are SyntaxErrors.
JSONParseThrows(text) == text = <<>> \/ \E k \in 1..Len(text) : text[k] # "7"
\* The number parsed, by its digits.
JSONParse(text) == [digits |-> text]

MissingName == "Missing tool name in definition"
HandlerNotFunction == "Tool handler must be a function"
DoesNotExist == "Tool does not exist, can not be removed"
AlreadyDefined == "Tool has already been defined"
AlreadyAdded == "Tool already added"
ItemMissing == "Could not find item"
NotMessage == "Can only cancelResponse messages with type message"
NotAssistant == "Can only cancelResponse messages with role assistant"
NoAudio == "Could not find audio on item to cancel"

\* ------------------------------------------------------------------ frames

\* Of the data of the events the client sends, what the model keeps.
NoData ==
  [item_id |-> "", output |-> "", content_index |-> Unset, audio_end_ms |-> Unset,
   tools |-> {}, turn_detection |-> "", voice |-> ""]
\* realtime.send(type, data) on the active transport sock: what the
\* transport is handed.
Frame(sock, type, data) == [socket |-> sock, event |-> [type |-> type, data |-> data]]
\* The events send dispatches for the frames, in order.
RECURSIVE Dispatched(_)
Dispatched(frames) ==
  IF frames = <<>> THEN <<>>
  ELSE << [name |-> "client." \o Head(frames).event.type, error |-> FALSE],
          [name |-> "client.*", error |-> FALSE] >> \o Dispatched(Tail(frames))
\* receive(type, event): the events dispatched when the handler of
\* server.<type> returned (error = "") or threw.
Received(type, error) ==
  << [name |-> "server." \o type, error |-> FALSE] >>
  \o IF error = "" THEN << [name |-> "server.*", error |-> FALSE] >> ELSE <<>>

\* A transport that can deliver a message: it has opened and not closed.
Delivering == \E s \in 1..Len(sockets) : sockets[s].opened /\ sockets[s].state \in {"open", "closing"}

\* A call on the client that changes no unbounded state ends.
ClientDone(error) == thrown' = error /\ UNCHANGED <<steps, busVars>>

ClientInit ==
  /\ tools = EmptyMap
  /\ turn_detection = "null"
  /\ voice = "shimmer"
  /\ sessionTools = {}
  /\ clientInputAudioBuffer = <<>>
  /\ running = <<>>
  /\ toolCalls = <<>>

\* ---------------------------------------------------------------- session

\* The session of a session.update: { ...this.sessionConfig } with its tools
\* replaced by useTools.
Session(useTools, td, v) ==
  [NoData EXCEPT !.tools = useTools, !.turn_detection = td, !.voice = v]

\* RealtimeClient.connect, up to the promise of realtime.connect().
clientConnect ==
  /\ IF isConnected
     THEN UNCHANGED sockets /\ ClientDone(AlreadyConnected)
     ELSE /\ Len(sockets) < MaxSockets
          /\ sockets' = Append(sockets, NewSocket)
          /\ ClientDone("")
  /\ UNCHANGED <<storeVars, speechSeen, ws, wire, apiEvents, clientVars>>

\* The transport reports open: the listener of realtime.connect runs, the
\* promise resolves and RealtimeClient.connect goes on to updateSession().
clientOpen(s) ==
  /\ sockets[s].state = "connecting"
  /\ sockets' = [sockets EXCEPT ![s].state = "open", ![s].opened = TRUE,
                                ![s].promise = "resolved", ![s].settled = @ + 1]
  /\ ws' = s
  /\ LET frames == <<Frame(s, "session.update",
                           Session(DOMAIN tools, turn_detection, voice))>> IN
     /\ wire' = wire \o frames
     /\ apiEvents' = apiEvents \o Dispatched(frames)
  /\ ClientDone(thrown)
  /\ UNCHANGED <<storeVars, speechSeen, clientVars>>

\* RealtimeClient.disconnect
clientDisconnect ==
  /\ clear
  /\ ws' = WsAfterDisconnect(0)
  /\ sockets' = SocketsAfterDisconnect(sockets, 0)
  /\ UNCHANGED <<wire, apiEvents, clientVars>>

\* (tools || []): the tools a call of updateSession gives inline.
Inline(session) == IF session.tools = OmittedTools THEN {} ELSE session.tools
\* A faulty variant: a tool given inline may have a registered name.
RedefinesNever(session) == FALSE
\* this.tools[definition?.name] is set for a tool given inline
Redefines(session) == Inline(session) \cap DOMAIN tools # {}
\* useTools: the tools given inline with the call, then the registered ones.
UseTools(session) == Inline(session) \cup DOMAIN tools

\* RealtimeClient.updateSession(session): the fields given are stored, then
\* the tool list is built, which throws on a name that is registered, then
\* the session is sent if the link is connected.
updateSession(session) ==
  LET td == IF session.turn_detection = Omitted THEN turn_detection
            ELSE session.turn_detection
      v == IF session.voice = Omitted THEN voice ELSE session.voice
      frames == IF isConnected /\ ~Redefines(session)
                THEN <<Frame(ws, "session.update", Session(UseTools(session), td, v))>>
                ELSE <<>>
  IN /\ turn_detection' = td
     /\ voice' = v
     /\ sessionTools' = IF session.tools = OmittedTools THEN sessionTools ELSE session.tools
     /\ wire' = wire \o frames
     /\ apiEvents' = apiEvents \o Dispatched(frames)
     /\ Called(IF Redefines(session) THEN AlreadyDefined ELSE "")
     /\ UNCHANGED <<storeVars, speechSeen, ws, sockets, tools, clientInputAudioBuffer,
                    running, toolCalls>>

\* RealtimeClient.addTool({ name }, handler), with the updateSession() it
\* ends with.
addTool(name, handler) ==
  /\ IF name = NoName
     THEN UNCHANGED <<tools, wire, apiEvents>> /\ ClientDone(MissingName)
     ELSE IF name \in DOMAIN tools
     THEN UNCHANGED <<tools, wire, apiEvents>> /\ ClientDone(AlreadyAdded)
     ELSE IF handler = NotAFunction
     THEN UNCHANGED <<tools, wire, apiEvents>> /\ ClientDone(HandlerNotFunction)
     ELSE LET added == Put(tools, name, handler)
              frames == IF isConnected
                        THEN <<Frame(ws, "session.update",
                                     Session(DOMAIN added, turn_detection, voice))>>
                        ELSE <<>> IN
          /\ tools' = added
          /\ wire' = wire \o frames
          /\ apiEvents' = apiEvents \o Dispatched(frames)
          /\ ClientDone("")
  /\ UNCHANGED <<storeVars, speechSeen, ws, sockets, turn_detection, voice, sessionTools,
                 clientInputAudioBuffer, running, toolCalls>>

\* RealtimeClient.removeTool(name)
removeTool(name) ==
  /\ IF name \notin DOMAIN tools
     THEN UNCHANGED tools /\ Called(DoesNotExist)
     ELSE tools' = Remove(tools, name) /\ Called("")
  /\ UNCHANGED <<storeVars, speechSeen, apiVars, turn_detection, voice, sessionTools,
                 clientInputAudioBuffer, running, toolCalls>>

\* ------------------------------------------------------------------ audio

\* RealtimeClient.getTurnDetectionType() === null
Manual == turn_detection = "null"
\* A faulty variant: the buffer is committed whatever the turn detection.
CommitsAlways(buffer) == Len(buffer) > 0
\* createResponse commits the buffer
Commits(buffer) == Manual /\ Len(buffer) > 0
\* What createResponse sends on the transport sock.
CreateResponseFrames(sock, buffer) ==
  (IF Commits(buffer) THEN <<Frame(sock, "input_audio_buffer.commit", NoData)>> ELSE <<>>)
  \o <<Frame(sock, "response.create", NoData)>>

\* RealtimeClient.appendInputAudio
appendInputAudio(arrayBuffer) ==
  /\ IF Len(arrayBuffer) = 0
     THEN UNCHANGED <<wire, apiEvents, clientInputAudioBuffer>> /\ Called("")
     ELSE IF ~isConnected
     THEN UNCHANGED <<wire, apiEvents, clientInputAudioBuffer>> /\ Called(NotConnected)
     ELSE LET frames == <<Frame(ws, "input_audio_buffer.append", NoData)>> IN
          /\ wire' = wire \o frames
          /\ apiEvents' = apiEvents \o Dispatched(frames)
          /\ clientInputAudioBuffer' = mergeInt16Arrays(clientInputAudioBuffer, arrayBuffer)
          /\ Called("")
  /\ UNCHANGED <<storeVars, speechSeen, ws, sockets, tools, turn_detection, voice,
                 sessionTools, running, toolCalls>>

\* RealtimeClient.createResponse
createResponse ==
  /\ IF ~isConnected
     THEN /\ Called(NotConnected)
          /\ UNCHANGED <<storeVars, speechSeen, wire, apiEvents, clientInputAudioBuffer>>
     ELSE LET frames == CreateResponseFrames(ws, clientInputAudioBuffer) IN
          /\ wire' = wire \o frames
          /\ apiEvents' = apiEvents \o Dispatched(frames)
          /\ IF Commits(clientInputAudioBuffer)
             THEN queueInputAudio(clientInputAudioBuffer) /\ clientInputAudioBuffer' = <<>>
             ELSE Called("") /\ UNCHANGED <<storeVars, speechSeen, clientInputAudioBuffer>>
  /\ UNCHANGED <<ws, sockets, tools, turn_detection, voice, sessionTools, running, toolCalls>>

\* item.content.findIndex((c) => c.type === 'audio'), -1 if there is none
AudioIndex(content) ==
  IF \E k \in 1..Len(content) : content[k].type = "audio"
  THEN (CHOOSE k \in 1..Len(content) :
          content[k].type = "audio" /\ \A j \in 1..(k - 1) : content[j].type # "audio") - 1
  ELSE -1
\* JavaScript numbers. A double x >= 0 is kept as [m, scale] with
\* x = m * 2^scale, m a natural number of 53 binary digits (or 0), and a
\* natural number as the sequence of its digits to the base 2^15, the most
\* significant first.
Base == 32768
RECURSIVE ToLimbs(_)
ToLimbs(n) == IF n = 0 THEN <<>> ELSE Append(ToLimbs(n \div Base), n % Base)
RECURSIVE FromLimbs(_)
FromLimbs(limbs) ==
  IF limbs = <<>> THEN 0
  ELSE Base * FromLimbs(SubSeq(limbs, 1, Len(limbs) - 1)) + limbs[Len(limbs)]
RECURSIVE BitLength(_)
\* The number of binary digits of a natural number below 2^31.
BitLength(n) == IF n = 0 THEN 0 ELSE 1 + BitLength(n \div 2)
LimbsBitLength(limbs) ==
  IF limbs = <<>> THEN 0 ELSE 15 * (Len(limbs) - 1) + BitLength(limbs[1])
RECURSIVE Stripped(_)
\* Without the leading zero digits.
Stripped(limbs) ==
  IF limbs = <<>> \/ limbs[1] # 0 THEN limbs ELSE Stripped(Tail(limbs))
RECURSIVE TimesUpTo(_, _, _)
\* [limbs, carry]: the last k digits of the number times f (f <= 2^15).
TimesUpTo(limbs, f, k) ==
  IF k = 0 THEN [limbs |-> <<>>, carry |-> 0]
  ELSE LET rest == TimesUpTo(Tail(limbs), f, k - 1)
           t == Head(limbs) * f + rest.carry
       IN [limbs |-> <<t % Base>> \o rest.limbs, carry |-> t \div Base]
\* The number times f, for f <= 2^15.
Times(limbs, f) ==
  LET product == TimesUpTo(limbs, f, Len(limbs))
  IN Stripped(<<product.carry>> \o product.limbs)
RECURSIVE DividedFrom(_, _, _)
\* [limbs, rest]: the quotient and the remainder of (r, limbs) by d, for
\* r < d <= 2^15.
DividedFrom(limbs, d, r) ==
  IF limbs = <<>> THEN [limbs |-> <<>>, rest |-> r]
  ELSE LET t == r * Base + Head(limbs)
           after == DividedFrom(Tail(limbs), d, t % d)
       IN [limbs |-> <<t \div d>> \o after.limbs, rest |-> after.rest]
\* The number times 2^s.
ShiftedLeft(limbs, s) == Times(limbs, 2^(s % 15)) \o [k \in 1..(s \div 15) |-> 0]
\* [limbs, rest]: the number divided by 2^s, and whether digits were lost
\* below the first one dropped ("sticky"), that one ("half") or none.
ShiftedRight(limbs, s) ==
  LET whole == s \div 15
      kept == IF whole >= Len(limbs) THEN <<>> ELSE SubSeq(limbs, 1, Len(limbs) - whole)
      dropped == IF whole >= Len(limbs) THEN limbs
                 ELSE SubSeq(limbs, Len(limbs) - whole + 1, Len(limbs))
      divided == DividedFrom(kept, 2^(s % 15), 0)
  IN [limbs |-> Stripped(divided.limbs),
      rest |-> Stripped(<<divided.rest>> \o dropped)]
RECURSIVE PlusOne(_)
PlusOne(limbs) ==
  IF limbs = <<>> THEN <<1>>
  ELSE IF limbs[Len(limbs)] < Base - 1 THEN [limbs EXCEPT ![Len(limbs)] = @ + 1]
  ELSE Append(PlusOne(SubSeq(limbs, 1, Len(limbs) - 1)), 0)
\* (limbs + inexact) * 2^scale rounded to a double, to nearest, ties to
\* even; limbs has at least 54 binary digits, inexact says that a non-zero
\* part below the last digit was left out.
RoundToDouble(limbs, scale, inexact) ==
  LET drop == LimbsBitLength(limbs) - 53
      cut == ShiftedRight(limbs, drop)
      half == ShiftedLeft(<<1>>, drop - 1)
      above == inexact \/ LimbsBitLength(cut.rest) > LimbsBitLength(half)
                       \/ (LimbsBitLength(cut.rest) = LimbsBitLength(half) /\ cut.rest # half)
      tie == ~inexact /\ cut.rest = half
      up == (LimbsBitLength(cut.rest) >= LimbsBitLength(half))
            /\ (above \/ (tie /\ cut.limbs[Len(cut.limbs)] % 2 = 1))
      raised == PlusOne(cut.limbs)
  IN IF ~up THEN [m |-> cut.limbs, scale |-> scale + drop]
     ELSE IF LimbsBitLength(raised) = 53 THEN [m |-> raised, scale |-> scale + drop]
     ELSE [m |-> ShiftedRight(raised, 1).limbs, scale |-> scale + drop + 1]
Zero == [m |-> <<>>, scale |-> 0]
\* a / b as a double, for natural numbers a < 2^31 and 0 < b <= 2^15
Divide(a, b) ==
  IF a = 0 THEN Zero
  ELSE LET s == 55 + BitLength(b) - BitLength(a)
           quotient == DividedFrom(ShiftedLeft(ToLimbs(a), s), b, 0)
       IN RoundToDouble(Stripped(quotient.limbs), -s, quotient.rest # 0)
\* x * f as a double, for a double x and a natural number 1 < f <= 2^15
Multiply(x, f) ==
  IF x = Zero THEN Zero ELSE RoundToDouble(Times(ShiftedLeft(x.m, 1), f), x.scale - 1, FALSE)
\* Math.floor(x), for a double 0 <= x < 2^31
MathFloor(x) ==
  IF x = Zero THEN 0
  ELSE IF x.scale >= 0 THEN FromLimbs(ShiftedLeft(x.m, x.scale))
  ELSE FromLimbs(ShiftedRight(x.m, -x.scale).limbs)

\* Math.floor((sampleCount / defaultFrequency) * 1000)
AudioEndMs(sampleCount) == MathFloor(Multiply(Divide(sampleCount, defaultFrequency), 1000))

\* What cancelResponse(id, sampleCount) throws ("" if it returns) and what
\* it has sent by then; id "" is a call with no id.
CancelError(id) ==
  IF id = "" THEN (IF isConnected THEN "" ELSE NotConnected)
  ELSE IF id \notin DOMAIN itemLookup THEN ItemMissing
  ELSE IF getItem(id).type # "message" THEN NotMessage
  ELSE IF getItem(id).role # "assistant" THEN NotAssistant
  ELSE IF ~isConnected THEN NotConnected
  ELSE IF AudioIndex(getItem(id).content) = -1 THEN NoAudio
  ELSE ""
CancelFrames(id, sampleCount) ==
  IF id = "" THEN (IF isConnected THEN <<Frame(ws, "response.cancel", NoData)>> ELSE <<>>)
  ELSE IF CancelError(id) \in {ItemMissing, NotMessage, NotAssistant, NotConnected} THEN <<>>
  ELSE <<Frame(ws, "response.cancel", NoData)>>
       \o IF CancelError(id) = NoAudio THEN <<>>
          ELSE <<Frame(ws, "conversation.item.truncate",
                       [NoData EXCEPT !.item_id = id,
                                      !.content_index = AudioIndex(getItem(id).content),
                                      !.audio_end_ms = AudioEndMs(sampleCount)])>>

\* RealtimeClient.cancelResponse
cancelResponse(id, sampleCount) ==
  /\ wire' = wire \o CancelFrames(id, sampleCount)
  /\ apiEvents' = apiEvents \o Dispatched(CancelFrames(id, sampleCount))
  /\ Called(CancelError(id))
  /\ UNCHANGED <<storeVars, speechSeen, ws, sockets, clientVars>>

\* ------------------------------------------------------------------ tools

\* The output of the function_call_output callTool sends: JSON.stringify of
\* the handler's result, or of { error: e.message }.
ToolOutput(outcome) == IF outcome = "returns" THEN "result" ELSE "{error}"
\* A faulty variant: a failure of the call is not reported.
ToolFramesUncaught(sock, call, outcome) ==
  IF outcome = "returns"
  THEN <<Frame(sock, "conversation.item.create",
               [NoData EXCEPT !.item_id = call, !.output = ToolOutput(outcome)])>>
  ELSE <<>>
\* What callTool sends for a call that has come to an outcome, before
\* createResponse: the send of the try block or that of the catch block.
ToolFrames(sock, call, outcome) ==
  <<Frame(sock, "conversation.item.create",
          [NoData EXCEPT !.item_id = call, !.output = ToolOutput(outcome)])>>

\* callTool from the point where the outcome of the call is known, to its
\* end: the function_call_output is sent, then createResponse() runs. On a
\* link that is not connected the send throws, in the try block and again
\* in the catch block, and the promise of callTool rejects.
Finishes(call, outcome) ==
  IF ~isConnected
  THEN /\ thrown' = NotConnected
       /\ UNCHANGED <<wire, apiEvents, queuedInputAudio, clientInputAudioBuffer>>
  ELSE LET frames == ToolFrames(ws, call, outcome)
                     \o CreateResponseFrames(ws, clientInputAudioBuffer) IN
       /\ wire' = wire \o frames
       /\ apiEvents' = apiEvents \o Dispatched(frames)
       /\ queuedInputAudio' = IF Commits(clientInputAudioBuffer)
                              THEN clientInputAudioBuffer ELSE queuedInputAudio
       /\ clientInputAudioBuffer' = IF Commits(clientInputAudioBuffer) THEN <<>> ELSE clientInputAudioBuffer
       /\ thrown' = ""

\* tool && this.tools[tool.name]?.handler
CallsTool(tool) == tool # NoTool /\ tool.name \in DOMAIN tools

\* The handler of server.conversation.item.created
clientItemCreated(id, shape) ==
  /\ Delivering
  /\ ConversationItemCreated(id, shape)
  /\ apiEvents' = apiEvents \o Received("conversation.item.created", thrown')
  /\ UNCHANGED <<ws, sockets, wire, clientVars>>

\* The handler of server.response.content_part.added
clientContentPartAdded(id, part) ==
  /\ Delivering
  /\ ResponseContentPartAdded(id, part)
  /\ apiEvents' = apiEvents \o Received("response.content_part.added", thrown')
  /\ UNCHANGED <<ws, sockets, wire, clientVars>>

\* The handler of server.response.function_call_arguments.delta
clientFunctionCallArgumentsDelta(id, delta) ==
  /\ Delivering
  /\ ResponseFunctionCallArgumentsDelta(id, delta)
  /\ apiEvents' = apiEvents \o Received("response.function_call_arguments.delta", thrown')
  /\ UNCHANGED <<ws, sockets, wire, clientVars>>

\* The handler of server.response.output_item.done: the reducer, then
\* callTool as far as it runs before it awaits the handler. The handler is
\* an async function: what it throws rejects its promise and does not stop
\* the dispatch.
clientOutputItemDone(id, status) ==
  /\ Delivering
  /\ steps < MaxEvents /\ steps' = steps + 1
  /\ IF id \notin DOMAIN itemLookup
     THEN /\ thrown' = NotFound
          /\ apiEvents' = apiEvents \o Received("response.output_item.done", "")
          /\ UNCHANGED <<heap, wire, queuedInputAudio, clientInputAudioBuffer, running, toolCalls>>
     ELSE LET item == itemLookup[id]
              tool == heap[item].formatted.tool
              received == Received("response.output_item.done", "") IN
          /\ heap' = [heap EXCEPT ![item].status = status]
          /\ IF ~CallsTool(tool)
             THEN /\ thrown' = ""
                  /\ apiEvents' = apiEvents \o received
                  /\ UNCHANGED <<wire, queuedInputAudio, clientInputAudioBuffer, running, toolCalls>>
             ELSE IF JSONParseThrows(tool.arguments)
             THEN /\ Finishes(id, "SyntaxError")
                  /\ UNCHANGED <<running, toolCalls>>
             ELSE /\ toolCalls' = Append(toolCalls, [id |-> id, tool |-> tool.name,
                                                 arguments |-> JSONParse(tool.arguments),
                                                 status |-> status])
                  /\ IF tools[tool.name] = "throws"
                     THEN Finishes(id, "throws") /\ UNCHANGED running
                     ELSE /\ running' = Append(running, [id |-> id,
                                                         outcome |-> tools[tool.name]])
                          /\ thrown' = ""
                          /\ apiEvents' = apiEvents \o received
                          /\ UNCHANGED <<wire, queuedInputAudio, clientInputAudioBuffer>>
  /\ UNCHANGED <<items, itemLookup, responseLookup, responses, queuedSpeechItems,
                 queuedTranscriptItems, speechSeen, busVars, ws, sockets, tools,
                 turn_detection, voice, sessionTools>>

\* The promise of a running handler settles and callTool goes on.
toolSettles(k) ==
  /\ Finishes(running[k].id, running[k].outcome)
  /\ running' = Splice(running, k)
  /\ UNCHANGED <<heap, items, itemLookup, responseLookup, responses, queuedSpeechItems,
                 queuedTranscriptItems, speechSeen, steps, busVars, ws, sockets, tools,
                 turn_detection, voice, sessionTools, toolCalls>>

\* The client driven through a tool call.
NextClientTools ==
  \/ clientConnect
  \/ \E s \in 1..Len(sockets) : clientOpen(s)
  \/ clientDisconnect
  \/ \E name \in ToolNames, handler \in Handlers : addTool(name, handler)
  \/ \E arrayBuffer \in AppendBuffers : appendInputAudio(arrayBuffer)
  \/ \E id \in ClientItemIds, shape \in ItemShapes : clientItemCreated(id, shape)
  \/ \E id \in ClientItemIds, delta \in ArgumentDeltas :
       clientFunctionCallArgumentsDelta(id, delta)
  \/ \E id \in ClientItemIds, status \in DoneStatuses : clientOutputItemDone(id, status)
  \/ \E k \in 1..Len(running) : toolSettles(k)

\* The client driven through its session and tool calls.
NextClientSession ==
  \/ clientConnect
  \/ \E s \in 1..Len(sockets) : clientOpen(s)
  \/ clientDisconnect
  \/ \E session \in SessionUpdates : updateSession(session)
  \/ \E name \in ToolNames \cup {NoName}, handler \in {"returns", NotAFunction} :
       addTool(name, handler)
  \/ \E name \in ToolNames : removeTool(name)

\* The client driven through its audio calls.
NextClientAudio ==
  \/ clientConnect
  \/ \E s \in 1..Len(sockets) : clientOpen(s)
  \/ clientDisconnect
  \/ \E td \in TurnDetections :
       updateSession([turn_detection |-> td, voice |-> Omitted, tools |-> OmittedTools])
  \/ \E arrayBuffer \in AppendBuffers : appendInputAudio(arrayBuffer)
  \/ createResponse
  \/ \E id \in ClientItemIds \cup {""}, sampleCount \in SampleCounts :
       cancelResponse(id, sampleCount)
  \/ \E id \in ClientItemIds, shape \in ItemShapes : clientItemCreated(id, shape)
  \/ \E id \in ClientItemIds, part \in Parts : clientContentPartAdded(id, part)

\* ------------------------------------------------------- specifications

Init == StoreInit /\ BusInit /\ ApiInit /\ ClientInit
SpecStore == Init /\ [][NextStore]_vars
SpecBus == Init /\ [][NextBus]_vars
SpecBusOff == Init /\ [][NextBusOff]_vars
SpecBusNested == Init /\ [][NextBusNested]_vars
SpecAPI == Init /\ [][NextAPI]_vars
SpecClientTools == Init /\ [][NextClientTools]_vars
SpecClientAudio == Init /\ [][NextClientAudio]_vars
SpecClientSession == Init /\ [][NextClientSession]_vars


\* ============================================================== the claims

\* C7. After any sequence of processed events the item list holds no two
\* items with the same id, and the id index holds exactly the ids of the
\* items of the list, each mapped to the very item the list holds.
C7_UniqueIds ==
  /\ \A i, j \in 1..Len(items) : i # j => heap[items[i]].id # heap[items[j]].id
  /\ DOMAIN itemLookup = {heap[items[i]].id : i \in 1..Len(items)}
  /\ \A i \in 1..Len(items) : itemLookup[heap[items[i]].id] = items[i]
\* Both ids are in the store, "a" deleted and created again after "b" was
\* created: its object is the newer one and it stands last in the list.
C7_Witness ==
  /\ Len(items) = 2
  /\ heap[items[1]].id = "b" /\ heap[items[2]].id = "a"
  /\ items[2] < items[1]

\* C5. A reducer that targets an item id or a response id the store does not
\* hold throws and leaves the whole store unchanged.
C5_AbsentTargetThrows ==
  [][ /\ \A id \in ItemIds \ DOMAIN itemLookup :
           ( \/ ConversationItemDeleted(id)
             \/ \E ms \in EndMs : ConversationItemTruncated(id, ms)
             \/ \E status \in DoneStatuses : ResponseOutputItemDone(id, status)
             \/ \E delta \in AudioDeltas : ResponseAudioDelta(id, delta)
             \/ \E ci \in ContentIndexes, delta \in DeltaStrings :
                  \/ ResponseAudioTranscriptDelta(id, ci, delta)
                  \/ ResponseTextDelta(id, ci, delta)
             \/ \E delta \in DeltaStrings : ResponseFunctionCallArgumentsDelta(id, delta)
             \/ \E part \in Parts : ResponseContentPartAdded(id, part) )
           => (thrown' = NotFound /\ UNCHANGED storeVars)
      /\ \A rid \in ResponseIds \ DOMAIN responseLookup :
           (\E id \in ItemIds : ResponseOutputItemAdded(rid, id))
           => (thrown' = NotFound /\ UNCHANGED storeVars) ]_vars
\* A call has thrown "not found" on a store that holds an item, a response
\* and a queued speech record.
C5_Witness ==
  /\ thrown = NotFound
  /\ Len(items) = 1 /\ Len(responses) = 1 /\ DOMAIN queuedSpeechItems # {}

\* C8. Right after conversation.item.created(id) neither queue holds an entry
\* for id: the event that consumed an entry removed it, so no later
\* conversation.item.created can consume it again.
C8_QueuesConsumedOnce ==
  [][ \A id \in ItemIds, shape \in ItemShapes :
        ConversationItemCreated(id, shape)
        => (id \notin DOMAIN queuedSpeechItems' /\ id \notin DOMAIN queuedTranscriptItems') ]_vars
\* An item holds the audio of its speech record, its transcript entry was
\* consumed too, and neither queue holds its id any more.
C8_Witness ==
  \E id \in DOMAIN itemLookup :
    /\ getItem(id).formatted.audio = Slice(Ramp(30), 0, 24)
    /\ getItem(id).formatted.transcript # <<>>
    /\ id \notin DOMAIN queuedSpeechItems /\ id \notin DOMAIN queuedTranscriptItems

\* The samples [lo, hi) of a buffer, as the claims count them.
Samples(buffer, lo, hi) == SubSeq(buffer, lo + 1, Min(hi, Len(buffer)))
\* floor(ms * 24000 / 1000)
AtRate(ms) == (ms * 24000) \div 1000

\* The case of C4: speech_started and then speech_stopped, with the raw input
\* buffer as context, were processed for an id whose item is not created yet.
SpeechClosed(id) ==
  /\ id \notin DOMAIN itemLookup
  /\ speechSeen[id].started /\ speechSeen[id].end_ms # Unset
  /\ speechSeen[id].buffer # NoBuffer
SpeechSlice(id) ==
  Samples(speechSeen[id].buffer, AtRate(speechSeen[id].start_ms), AtRate(speechSeen[id].end_ms))

\* C4, as stated: after speech_started(id, start_ms) and speech_stopped(id,
\* end_ms) with the raw input buffer as context, the item conversation.item.created(id)
\* produces has formatted.audio equal to the buffer's samples from
\* floor(start_ms*24000/1000) up to, not including, floor(end_ms*24000/1000).
C4_Original ==
  [][ \A id \in ItemIds, shape \in ItemShapes :
        (SpeechClosed(id) /\ ConversationItemCreated(id, shape))
        => getItem(id)'.formatted.audio = SpeechSlice(id) ]_vars
\* C4, amended: the same, unless the created item is a user message and a
\* manually queued input-audio buffer is pending; the item then holds that
\* pending buffer instead.
C4_SpeechSlice ==
  [][ \A id \in ItemIds, shape \in ItemShapes :
        (SpeechClosed(id) /\ ConversationItemCreated(id, shape))
        => getItem(id)'.formatted.audio =
             IF shape.type = "message" /\ shape.role = "user" /\ queuedInputAudio # NullAudio
             THEN queuedInputAudio ELSE SpeechSlice(id) ]_vars
\* An item holds the samples 24..29 of the 30-sample buffer: speech started
\* at 1 ms and stopped at 2 ms, the end clipped to the buffer.
C4_Witness ==
  \E id \in DOMAIN itemLookup :
    getItem(id).formatted.audio = <<125, 126, 127, 128, 129, 130>>

\* x is an array of 16-bit samples
IsSamples(x) == \A k \in 1..Len(x) : x[k] \in -32768..32767

\* Some event addressed to the item id is processed.
EventFor(id) ==
  \/ \E shape \in ItemShapes : ConversationItemCreated(id, shape)
  \/ ConversationItemDeleted(id)
  \/ \E ci \in ContentIndexes, t \in Transcripts : InputAudioTranscriptionCompleted(id, ci, t)
  \/ \E ms \in EndMs : ConversationItemTruncated(id, ms)
  \/ \E ms \in StartMs : SpeechStarted(id, ms)
  \/ \E ms \in EndMs, buf \in InputBuffers \cup {NoBuffer} : SpeechStopped(id, ms, buf)
  \/ \E delta \in AudioDeltas : ResponseAudioDelta(id, delta)
  \/ \E ci \in ContentIndexes, delta \in DeltaStrings :
       ResponseAudioTranscriptDelta(id, ci, delta) \/ ResponseTextDelta(id, ci, delta)
  \/ \E delta \in DeltaStrings : ResponseFunctionCallArgumentsDelta(id, delta)
  \/ \E part \in Parts : ResponseContentPartAdded(id, part)
  \/ \E status \in DoneStatuses : ResponseOutputItemDone(id, status)

\* The samples the base64 texts "AQA=" and "//8=" encode.
PCM16 == (<<0, 16, 0>> :> <<1>>) @@ (<<63, 63, 60>> :> <<-1>>)

\* C1. For an item of the store, each delta event addressed to it (to one of
\* its content parts; arguments to a function call) appends exactly its delta
\* to the formatted field of its kind and leaves the other three as they are,
\* and events addressed to other items leave all four as they are: the fields
\* are their value at creation followed by the deltas in arrival order.
C1_DeltasConcatenate ==
  [][ \A id \in DOMAIN itemLookup :
        LET old == getItem(id).formatted IN
        /\ \A delta \in DOMAIN PCM16 :
             ResponseAudioDelta(id, delta)
             => getItem(id)'.formatted = [old EXCEPT !.audio = @ \o PCM16[delta]]
        /\ \A ci \in ContentIndexes, delta \in DeltaStrings :
             (ci < Len(getItem(id).content) /\ getItem(id).content # NoContent)
             => /\ ResponseTextDelta(id, ci, delta)
                   => getItem(id)'.formatted = [old EXCEPT !.text = @ \o delta]
                /\ ResponseAudioTranscriptDelta(id, ci, delta)
                   => getItem(id)'.formatted = [old EXCEPT !.transcript = @ \o delta]
        /\ \A delta \in DeltaStrings :
             (getItem(id).type = "function_call" /\ ResponseFunctionCallArgumentsDelta(id, delta))
             => getItem(id)'.formatted = [old EXCEPT !.tool.arguments = @ \o delta]
        /\ \A other \in ItemIds \ {id} :
             EventFor(other) => getItem(id)'.formatted = old ]_vars

\* C2. conversation.item.created for an id the store already holds changes
\* nothing: the list, the index, the stored items, both queues and the
\* pending manually queued input audio are as before.
C2_DuplicateCreatedIsNoOp ==
  [][ \A id \in DOMAIN itemLookup, shape \in ItemShapes :
        ConversationItemCreated(id, shape) => UNCHANGED storeVars ]_vars

\* C3. input_audio_transcription.completed for an id the store does not hold
\* does not throw, and the item a later conversation.item.created makes for
\* the id has the buffered transcript as its formatted.transcript.
C3_BufferedTranscript ==
  [][ \A id \in ItemIds \ DOMAIN itemLookup :
        /\ \A ci \in ContentIndexes, t \in Transcripts :
             InputAudioTranscriptionCompleted(id, ci, t)
             => /\ thrown' = ""
                /\ queuedTranscriptItems'[id].transcript = (IF t = <<>> THEN <<" ">> ELSE t)
        /\ \A shape \in ItemShapes :
             (id \in DOMAIN queuedTranscriptItems /\ ConversationItemCreated(id, shape))
             => getItem(id)'.formatted.transcript = queuedTranscriptItems[id].transcript ]_vars

\* C6. conversation.item.truncated on a stored item leaves its
\* formatted.transcript empty and its formatted.audio the first
\* min(previous length, floor(audio_end_ms*24000/1000)) samples of the
\* previous audio.
C6_TruncationIsPrefix ==
  [][ \A id \in DOMAIN itemLookup, ms \in EndMs :
        ConversationItemTruncated(id, ms)
        => LET old == getItem(id).formatted.audio IN
           /\ getItem(id)'.formatted.transcript = <<>>
           /\ IsSamples(getItem(id)'.formatted.audio)
           /\ getItem(id)'.formatted.audio = SubSeq(old, 1, Min(Len(old), AtRate(ms))) ]_vars

\* What the claims about the bus expect a dispatch to call: the callbacks
\* registered for the name with on, in the order of the on calls, then those
\* registered for it with onNext and used by no dispatch yet, in the order
\* of the onNext calls; each with the payload.
RegisteredFor(name, once) ==
  SelectSeq(registered, LAMBDA r : r.name = name /\ r.once = once /\ ~r.used)
ExpectedCalls(name, event) ==
  LET regs == RegisteredFor(name, FALSE) \o RegisteredFor(name, TRUE) IN
  [k \in 1..Len(regs) |-> [callback |-> regs[k].callback, event |-> event]]
Raises(name) ==
  \E k \in 1..Len(registered) :
    registered[k].name = name /\ registered[k].callback.body = "throws"

C10_WaitReturnsFirstPayload ==
  (waiter.pc = "returned" /\ ~Raises(waiter.eventName))
  => waiter.result = IF firstDispatch = NoDispatch THEN "null" ELSE firstDispatch

\* The number of registrations of a callback in a list.
Count(handlers, callback) ==
  Cardinality({k \in 1..Len(handlers) : handlers[k] = callback})
\* after is before with one registration of the callback taken out.
OneRemoved(before, after, callback) ==
  \E k \in 1..Len(before) :
    /\ before[k] = callback
    /\ after = SubSeq(before, 1, k - 1) \o SubSeq(before, k + 1, Len(before))
\* What C11 says of removing from one kind of subscriptions (kind), the other
\* kind (other) being left alone.
RemovalContract(kind, other, name, callback) ==
  /\ other' = other
  /\ \A n \in EventNames \ {name} : HandlersOf(kind', n) = HandlersOf(kind, n)
  /\ IF callback = NoCallback
     THEN HandlersOf(kind', name) = <<>> /\ thrown' = ""
     ELSE IF Count(HandlersOf(kind, name), callback) = 0
          THEN kind' = kind /\ thrown' = ListenerError
          ELSE /\ OneRemoved(HandlersOf(kind, name), HandlersOf(kind', name), callback)
               /\ thrown' = ""

\* C11. off(name, h) and offNext(name, h) with h not registered for name
\* throw and leave every subscription as it is; with h registered they take
\* out exactly one registration of h for the name; with no handler they take
\* out all handlers of their kind for the name; the other kind and the other
\* names are left as they are.
C11_RemovalIsExact ==
  [][ \A name \in EventNames, callback \in Callbacks \cup {NoCallback} :
        /\ off(name, callback)
           => RemovalContract(eventHandlers, nextEventHandlers, name, callback)
        /\ offNext(name, callback)
           => RemovalContract(nextEventHandlers, eventHandlers, name, callback) ]_vars

\* A callback registered twice for a name has had one registration removed:
\* one is left, three calls were made, the last returned.
C11_Witness ==
  /\ steps = 3 /\ thrown = "" /\ Len(registered) = 2
  /\ registered[1] = registered[2]
  /\ LET r == registered[1]
         kind == IF r.once THEN nextEventHandlers ELSE eventHandlers
     IN HandlersOf(kind, r.name) = <<r.callback>>

\* C12. connect() on a connected link throws and makes no transport; the
\* promise of a connect() is resolved only by a transport that has reported
\* open, the link being connected then; and the active transport is always
\* one that has reported open.
C12_ConnectResolvesWhenOpen ==
  [][ /\ (connect /\ isConnected) => (thrown' = AlreadyConnected /\ sockets' = sockets)
      /\ \A s \in 1..Len(sockets) :
           (sockets[s].promise = "pending" /\ sockets'[s].promise = "resolved")
           => (sockets'[s].opened /\ ws' # 0)
      /\ (ws' # 0 => sockets'[ws'].opened) ]_vars
\* A connect() was refused on a link whose connect() had resolved.
C12_Witness ==
  /\ thrown = AlreadyConnected /\ ws # 0
  /\ sockets[ws].promise = "resolved" /\ Len(sockets) = 1

\* C13. A transport that reports an error before it has reported open has
\* the promise of its connect() rejected, settled once, no transport is
\* made in its place, and the link is disconnected afterwards.
C13_ErrorBeforeOpenRejects ==
  [][ \A s \in 1..Len(sockets) :
        (TransportError(s) /\ ~sockets[s].opened)
        => /\ sockets'[s].promise = "rejected" /\ sockets'[s].settled = 1
           /\ Len(sockets') = Len(sockets)
           /\ ws' = 0 ]_vars

\* C14. An error or close callback of the active transport leaves the link
\* disconnected and dispatches one 'close' event, whose error flag is true
\* for the error callback and false for the close callback.
C14_CloseEventOnActive ==
  [][ \A s \in 1..Len(sockets) :
        ws = s
        => /\ TransportError(s)
              => /\ ws' = 0
                 /\ apiEvents' = Append(apiEvents, [name |-> "close", error |-> TRUE])
           /\ TransportClose(s)
              => /\ ws' = 0
                 /\ apiEvents' = Append(apiEvents, [name |-> "close", error |-> FALSE]) ]_vars
\* The active transport reported an error: the link is disconnected and the
\* one event dispatched is a 'close' with the error flag.
C14_Witness ==
  /\ ws = 0 /\ Len(sockets) = 1 /\ sockets[1].state = "failed" /\ sockets[1].opened
  /\ apiEvents = <<[name |-> "close", error |-> TRUE]>>

\* The data send takes as a record: a record, or none.
IsRecord(data) == data \in {"{a:1}", "undefined"}

\* C15. send on a link that is not connected, or with data that is no
\* record, throws, dispatches nothing, hands nothing to the transport and
\* leaves the link as it is.
C15_SendRejects ==
  [][ \A eventName \in SendTypes, data \in SendData :
        (send(eventName, data) /\ (~isConnected \/ ~IsRecord(data)))
        => (thrown' # "" /\ UNCHANGED apiVars) ]_vars

\* C16. disconnect with a handle that is not the active transport changes
\* nothing; with no handle or the active one it closes the active transport
\* and leaves the link disconnected, and changes nothing on a disconnected
\* link; no transport has close() called on it twice.
C16_DisconnectGuardsHandle ==
  [][ /\ \A handle \in 0..Len(sockets) :
           disconnect(handle)
           => IF (handle # 0 /\ handle # ws) \/ ws = 0 THEN UNCHANGED apiVars
              ELSE /\ ws' = 0
                   /\ sockets'[ws].closeCalls = sockets[ws].closeCalls + 1
                   /\ \A s \in 1..Len(sockets) : s # ws => sockets'[s] = sockets[s]
                   /\ UNCHANGED <<wire, apiEvents>>
      /\ \A s \in 1..Len(sockets') : sockets'[s].closeCalls <= 1 ]_vars
\* Of two transports one was the active one and was closed by disconnect,
\* once; no callback of it has run since.
C16_Witness ==
  /\ ws = 0 /\ Len(sockets) = 2 /\ apiEvents = <<>>
  /\ \E s \in 1..2 : sockets[s].state = "closing" /\ sockets[s].closeCalls = 1

\* The function_call item of the id has had a response.output_item.done and
\* its tool handler has been called.
CalledFor(id) ==
  /\ id \in DOMAIN itemLookup /\ getItem(id).status \in {"completed", "incomplete"}
  /\ \E k \in 1..Len(toolCalls) : toolCalls[k].id = id
\* The function_call item of the id names a registered tool and its
\* accumulated arguments parse.
Callable(id) ==
  /\ id \in DOMAIN itemLookup /\ getItem(id).type = "function_call"
  /\ getItem(id).name \in DOMAIN tools
  /\ getItem(id).arguments # <<>>
  /\ \A k \in 1..Len(getItem(id).arguments) : getItem(id).arguments[k] = "7"

\* C17. Over the inbound events, repeated response.output_item.done events
\* included, the handler of a registered tool is called once for a
\* function_call item: not again for an item it was called for, and when
\* it is called, with the item's accumulated arguments parsed and on an
\* item of a terminal status.
C17_ToolCalledOncePerItem ==
  [][ \A id \in ClientItemIds, status \in DoneStatuses :
        clientOutputItemDone(id, status)
        => /\ CalledFor(id) => toolCalls' = toolCalls
           /\ (Callable(id) /\ ~CalledFor(id))
              => /\ Len(toolCalls') = Len(toolCalls) + 1
                 /\ toolCalls'[Len(toolCalls')].id = id
                 /\ toolCalls'[Len(toolCalls')].arguments = [digits |-> getItem(id).arguments]
                 /\ heap'[itemLookup[id]].status \in {"completed", "incomplete"}
           /\ ~Callable(id) => toolCalls' = toolCalls ]_vars

\* The frames handed to the transport in a step.
NewFrames == SubSeq(wire', Len(wire) + 1, Len(wire'))
\* The number of frames of a type among frames.
FramesOf(frames, type) == Cardinality({k \in 1..Len(frames) : frames[k].event.type = type})
\* A call of a tool for the item id has come to an end with the output: one
\* function_call_output is sent, first, and one response.create, last.
OutputThenResponse(id, output) ==
  /\ Len(NewFrames) >= 2
  /\ NewFrames[1].event.type = "conversation.item.create"
  /\ NewFrames[1].event.data.item_id = id
  /\ NewFrames[1].event.data.output = output
  /\ NewFrames[Len(NewFrames)].event.type = "response.create"
  /\ FramesOf(NewFrames, "conversation.item.create") = 1
  /\ FramesOf(NewFrames, "response.create") = 1

\* C18. On a connected link, a tool call that comes to an end, the handler
\* having returned, thrown or rejected, or the arguments not parsing, sends
\* one function_call_output (the result, or the error) and after it one
\* response.create, and does so once; while the handler runs nothing is sent.
C18_ToolOutputThenResponse ==
  [][ /\ \A k \in 1..Len(running) :
           (toolSettles(k) /\ isConnected)
           => /\ OutputThenResponse(running[k].id,
                    IF running[k].outcome = "returns" THEN "result" ELSE "{error}")
              /\ Len(running') = Len(running) - 1
      /\ \A id \in ClientItemIds, status \in DoneStatuses :
           (clientOutputItemDone(id, status) /\ isConnected /\ id \in DOMAIN itemLookup
              /\ getItem(id).type = "function_call" /\ getItem(id).name \in DOMAIN tools)
           => IF ~Callable(id) \/ tools[getItem(id).name] = "throws"
              THEN OutputThenResponse(id, "{error}") /\ running' = running
              ELSE NewFrames = <<>> /\ Len(running') = Len(running) + 1 ]_vars
\* A handler that was called has rejected, on a connected link: the error
\* was sent as a function_call_output, and a response.create after it.
C18_Witness ==
  /\ running = <<>> /\ Len(toolCalls) = 1 /\ isConnected /\ Len(wire) = 3
  /\ tools[<<"T">>] = "rejects"
  /\ wire[2].event.type = "conversation.item.create" /\ wire[2].event.data.output = "{error}"
  /\ wire[3].event.type = "response.create"

\* C19. createResponse on a connected link, in manual mode with a buffer
\* that is not empty, sends input_audio_buffer.commit, then response.create,
\* hands the buffer to the store and empties it; otherwise it sends
\* response.create alone and leaves the buffer and the store's queued audio.
C19_CreateResponseCommits ==
  [][ (createResponse /\ isConnected)
      => IF turn_detection = "null" /\ clientInputAudioBuffer # <<>>
         THEN /\ Len(NewFrames) = 2
              /\ NewFrames[1].event.type = "input_audio_buffer.commit"
              /\ NewFrames[2].event.type = "response.create"
              /\ queuedInputAudio' = clientInputAudioBuffer
              /\ clientInputAudioBuffer' = <<>>
         ELSE /\ Len(NewFrames) = 1
              /\ NewFrames[1].event.type = "response.create"
              /\ UNCHANGED <<clientInputAudioBuffer, queuedInputAudio>> ]_vars
\* createResponse has committed a buffer in manual mode.
C19_Witness ==
  /\ turn_detection = "null" /\ queuedInputAudio = <<101, 102>> /\ clientInputAudioBuffer = <<>>
  /\ Len(wire) = 4 /\ wire[3].event.type = "input_audio_buffer.commit"
  /\ wire[4].event.type = "response.create"

\* The item of the id is an assistant message with an audio part.
Cancellable(id) ==
  /\ id \in DOMAIN itemLookup
  /\ getItem(id).type = "message" /\ getItem(id).role = "assistant"
  /\ \E k \in 1..Len(getItem(id).content) : getItem(id).content[k].type = "audio"
\* The index, from 0, of the first audio part of the item of the id.
FirstAudio(id) ==
  (CHOOSE k \in 1..Len(getItem(id).content) :
     /\ getItem(id).content[k].type = "audio"
     /\ \A j \in 1..(k - 1) : getItem(id).content[j].type # "audio") - 1

\* C20. cancelResponse with an id, on an item that is missing, is no
\* assistant message or has no audio part, throws and has sent nothing;
\* otherwise, on a connected link, it sends response.cancel and then
\* conversation.item.truncate with the index of the audio part and
\* audio_end_ms = floor(sampleCount * 1000 / 24000).
C20_CancelChecksFirst ==
  [][ \A id \in ClientItemIds, sampleCount \in SampleCounts :
        cancelResponse(id, sampleCount)
        => IF ~Cancellable(id) THEN thrown' # "" /\ NewFrames = <<>>
           ELSE isConnected
                => /\ Len(NewFrames) = 2
                   /\ NewFrames[1].event.type = "response.cancel"
                   /\ NewFrames[2].event.type = "conversation.item.truncate"
                   /\ NewFrames[2].event.data.item_id = id
                   /\ NewFrames[2].event.data.content_index = FirstAudio(id)
                   /\ NewFrames[2].event.data.audio_end_ms = (sampleCount * 1000) \div 24000 ]_vars

\* C24. The listeners of one transport that has opened dispatch at most one
\* 'close' event, whatever the order of its error and close callbacks.
C24_OneClosePerConnection ==
  \A s \in 1..Len(sockets) : sockets[s].opened => sockets[s].closeEvents <= 1

\* C25. When a listener dispatches 'close', the link is disconnected:
\* isConnected() is false at the dispatch.
C25_CloseMeansDisconnected ==
  [][ ( /\ Len(apiEvents') = Len(apiEvents) + 1
        /\ apiEvents'[Len(apiEvents')].name = "close" )
      => ws' = 0 ]_vars

\* C26. At most one opened transport is attached to the link: a transport
\* that has opened, has not been closed and has not reported an error or a
\* close is the active one.
C26_OneOpenTransport ==
  \A s \in 1..Len(sockets) : sockets[s].state = "open" => ws = s

\* C28. Every item of the store has a sample array, possibly empty, as its
\* formatted.audio.
C28_AudioIsSamples ==
  \A k \in 1..Len(items) : IsSamples(heap[items[k]].formatted.audio)

\* C23. When the handler of a tool call settles on a link that has been
\* disconnected meanwhile, callTool ends without an error: nothing is
\* thrown out of the asynchronous call.
C23_LateCompletionContained ==
  [][ \A k \in 1..Len(running) :
        (toolSettles(k) /\ ~isConnected) => thrown' = "" ]_vars

\* The step adds a user message to the store whose formatted.audio is the
\* given buffer.
ClaimedBy(buffer) ==
  /\ Len(items') = Len(items) + 1
  /\ LET item == heap'[items'[Len(items')]] IN
       item.type = "message" /\ item.role = "user" /\ item.formatted.audio = buffer

\* C29. A buffer createResponse has committed stays queued until a
\* conversation.item.created for a user message takes it as the
\* formatted.audio of the item it adds: no other step, disconnect's clearing
\* of the store apart, replaces or drops a pending buffer.
C29_CommittedBufferClaimed ==
  [][ ( /\ queuedInputAudio # NullAudio
        /\ queuedInputAudio' # queuedInputAudio
        /\ ~clientDisconnect )
      => ClaimedBy(queuedInputAudio) /\ queuedInputAudio' = NullAudio ]_vars

\* The events receive dispatches for an inbound message.
InboundNames ==
  {"server.*", "server.conversation.item.created", "server.response.content_part.added",
   "server.response.function_call_arguments.delta", "server.response.output_item.done"}

\* C30. An inbound message is dispatched as server.<type> and applied to
\* the store only while the link has an active connection: after
\* disconnect() no message of the old transport is dispatched.
C30_OnlyActiveDelivers ==
  [][ (\E k \in (Len(apiEvents) + 1)..Len(apiEvents') : apiEvents'[k].name \in InboundNames)
      => isConnected ]_vars

\* The step sends one session.update, and it carries the configuration the
\* client holds after the step: its turn detection, its voice, and as tools
\* those of the configuration with the registered ones.
SendsMerged ==
  /\ Len(NewFrames) = 1
  /\ NewFrames[1].event.type = "session.update"
  /\ NewFrames[1].event.data.turn_detection = turn_detection'
  /\ NewFrames[1].event.data.voice = voice'
  /\ NewFrames[1].event.data.tools = sessionTools' \cup DOMAIN tools'

\* C21. updateSession stores each field it is given and keeps the others;
\* the session.update it sends on a connected link carries the fields it
\* was given and the kept values of the others; on a link that is not
\* connected it sends nothing, and the session.update the next connect()
\* sends carries the configuration as merged.
C21_SessionMerge ==
  [][ /\ \A session \in SessionUpdates :
           updateSession(session)
           => /\ turn_detection' = IF session.turn_detection = Omitted THEN turn_detection
                                   ELSE session.turn_detection
              /\ voice' = IF session.voice = Omitted THEN voice ELSE session.voice
              /\ sessionTools' = IF session.tools = OmittedTools THEN sessionTools
                                 ELSE session.tools
              /\ IF ~isConnected THEN NewFrames = <<>>
                 ELSE thrown' = "" => SendsMerged
      /\ \A s \in 1..Len(sockets) : clientOpen(s) => SendsMerged ]_vars

\* C22. addTool throws and leaves the registered tools as they were when
\* the definition has no name, the name is registered or the handler is no
\* function; otherwise it registers the tool and, on a connected link, sends
\* exactly one session.update whose tools are the registered ones, the new
\* one among them (the update addTool makes gives no tool inline). An
\* updateSession throws when a tool it is given inline has the name of a
\* registered one; otherwise the session.update it sends on a connected link
\* has the tools given inline with it and the registered ones.
C22_AddToolChecks ==
  [][ /\ \A name \in ToolNames \cup {NoName}, handler \in {"returns", NotAFunction} :
           addTool(name, handler)
           => IF name = NoName \/ name \in DOMAIN tools \/ handler = NotAFunction
              THEN thrown' # "" /\ tools' = tools /\ NewFrames = <<>>
              ELSE /\ thrown' = ""
                   /\ DOMAIN tools' = DOMAIN tools \cup {name}
                   /\ IF isConnected
                      THEN /\ Len(NewFrames) = 1
                           /\ NewFrames[1].event.type = "session.update"
                           /\ NewFrames[1].event.data.tools = DOMAIN tools'
                      ELSE NewFrames = <<>>
      /\ \A session \in SessionUpdates :
           updateSession(session)
           => LET given == IF session.tools = OmittedTools THEN {} ELSE session.tools IN
              IF given \cap DOMAIN tools # {}
              THEN thrown' # "" /\ NewFrames = <<>>
              ELSE /\ thrown' = ""
                   /\ isConnected
                      => /\ Len(NewFrames) = 1
                         /\ NewFrames[1].event.type = "session.update"
                         /\ NewFrames[1].event.data.tools = given \cup DOMAIN tools ]_vars
\* addTool has registered T on a connected link and sent the session.update
\* that lists it.
C22_Witness ==
  /\ isConnected /\ thrown = "" /\ sessionTools = {}
  /\ DOMAIN tools = {<<"T">>}
  /\ Len(wire) = 2
  /\ wire[1].event.data.tools = {}
  /\ wire[2].event.type = "session.update" /\ wire[2].event.data.tools = {<<"T">>}

\* The places in the history of frames of the session.update events sent on
\* the active transport.
SessionUpdatesSent ==
  {k \in 1..Len(wire) : wire[k].socket = ws /\ wire[k].event.type = "session.update"}

\* C27. On a connected link, when no tool was ever given inline, the tools
\* of the session.update sent last are the registered tools: what addTool
\* and removeTool have left registered is what the server was told.
C27_AdvertisedToolsCurrent ==
  (isConnected /\ sessionTools = {} /\ SessionUpdatesSent # {})
  => LET last == CHOOSE k \in SessionUpdatesSent : \A j \in SessionUpdatesSent : j <= k IN
     wire[last].event.data.tools = DOMAIN tools

\* The number of invocations of the callback in the history given.
InvocationsIn(history, callback) ==
  Cardinality({k \in 1..Len(history) : history[k].callback = callback})
\* The callback was registered exactly once in the registrations given, and
\* that with onNext.
OnceIn(registrations, callback) ==
  /\ Cardinality({k \in 1..Len(registrations) : registrations[k].callback = callback}) = 1
  /\ \A k \in 1..Len(registrations) :
       registrations[k].callback = callback => registrations[k].once
\* The callback is among the one-shot handlers given for the name.
PendingIn(handlers, eventName, callback) ==
  /\ eventName \in DOMAIN handlers
  /\ \E j \in 1..Len(handlers[eventName]) : handlers[eventName][j] = callback

\* C31. A one-shot handler registered once is invoked at most once, stays
\* registered until it has been invoked, and is invoked by the dispatch of
\* its name that starts next after its registration, also when callbacks
\* dispatch the name or register one-shot handlers during a dispatch.
C31_OneShotExactlyOnce ==
  [][ /\ \A k \in 1..Len(registered') :
           LET r == registered'[k] IN
           OnceIn(registered', r.callback)
           => /\ InvocationsIn(calls', r.callback) <= 1
              /\ InvocationsIn(calls', r.callback) = 0
                 => PendingIn(nextEventHandlers', r.name, r.callback)
      /\ \A eventName \in EventNames, event \in NestedPayloads :
           dispatchNested(eventName, event)
           => \A k \in 1..Len(registered) :
                LET r == registered[k] IN
                ( /\ r.name = eventName /\ OnceIn(registered, r.callback)
                  /\ InvocationsIn(calls, r.callback) = 0 )
                => InvocationsIn(calls', r.callback) = 1 ]_vars

====
